---- MODULE Spec2Model ----
(***************************************************************************)
(* The serial transport of the ESP32-Joystick host tools.                  *)
(*                                                                         *)
(* Two programs of the repository own a SerialManager:                     *)
(*   joystick_tool.py   the tabbed tool: one SerialManager shared by the   *)
(*                      Updater tab (whose update() runs in a worker       *)
(*                      thread) and the Calibrator tab (GUI thread);       *)
(*   calibrator_gui.py  the stand-alone calibrator: a SerialManager that   *)
(*                      pushes lines into one queue, GUI thread only.      *)
(* `prog` says which program runs; it is chosen in Init and never changes. *)
(*                                                                         *)
(* Threads: the GUI (main) thread, the update worker, and one reader       *)
(* thread per successful connect.  Every step below is one atomic piece of *)
(* a method; the pieces are cut at the points where a method blocks or     *)
(* where another thread can observe a difference.                          *)
(***************************************************************************)
EXTENDS Integers, Sequences, FiniteSets, TLC

\* ---------------------------------------------------------------- bounds
MaxOps   == 2   \* user events in the tabbed tool
MaxCalls == 3   \* calls and user events on the GUI thread of the other programs
MaxDev   == 2   \* things the device does: lines it sends, read errors it causes
MaxSamples  == 2   \* lines the serial_worker of a calibration script reads
MaxCaptures == 2   \* presses of the capture buttons of a calibration script
Grid        == 20  \* stick deflections given to apply_deadzone are k / Grid

\* The program that runs: joystick_tool.py with its tabs, joystick_tool.py's
\* SerialManager driven directly by a client of the class, calibrator_gui.py with
\* its handlers, calibrator_gui.py's SerialManager driven directly, and the
\* stand-alone scripts.
TOOL   == "joystick_tool"
TOOLSM == "joystick_tool.SerialManager"
GUI    == "calibrator_gui"
GUISM  == "calibrator_gui.SerialManager"
Queued == {GUI, GUISM}       \* the SerialManager that fills a queue
DEV    == "flash-joystick"      \* its SerialDevice, driven by the App's handlers
FWU    == "flash-joystick.FirmwareUpdater"   \* its first script: updater and monitor
TEST   == "test.py"
OLED   == "oled_mirror.py"
TESTFN == "test.py helpers"
Shared == {TOOL, TOOLSM}     \* the SerialManager with listeners and a lock

Ports  == {"COM3", "COM4"}
NoPort == ""

\* The callbacks the tabs register with the shared manager, three callbacks of a
\* client of the class (ONCE unsubscribes itself when called, BAD raises when
\* called), and the queue of calibrator_gui.py.
CAL  == "CalibratorTab._on_serial_line"
UPD  == "UpdaterTab._manager_log_cb"
LST  == "client_listener"
ONCE == "self_removing_listener"
BAD  == "raising_listener"
OUTQ == "out_q"
Subs == {CAL, UPD, LST, ONCE, BAD, OUTQ}

ERRLINE == 0     \* the synthetic "<ERROR reading serial: ...>\n" line

\* The n-th line the device sends is 2n, or 2n + 1 when its text matches
\* FW_VERSION\s*[:=]?\s*([0-9]+\.[0-9]+\.[0-9]+); FWVER is the group it captures.
Line(n, v) == 2 * n + v
IsVersionLine(x) == x # ERRLINE /\ x % 2 = 1
FWVER == "1.2.3"

\* Python's None where an integer may stand
None == -1

VARIABLES
    prog,         \* which program runs
    serial,       \* SerialManager.serial: 0 (None) or the index of a handle in hs
    smport,       \* calibrator_gui SerialManager.port (NoPort = None)
    alive,        \* SerialManager.alive (Event / bool)
    read_thread,  \* SerialManager.read_thread / .thread: 0 (None) or index in threads
    listeners,    \* SerialManager.listeners (a Python list: duplicates possible)
    lock,         \* SerialManager.lock: 0 free, or the reader thread holding it
    hs,           \* every serial.Serial object the manager created: [port, open]
    threads,      \* every reader thread started: [pc, h, snap, line]
    recv,         \* what each subscriber was handed, in order
    nlines,       \* lines the device has sent so far
    nfaults,      \* read errors so far
    nops,         \* GUI-thread events so far
    port_var,     \* the shared port selection (tk.StringVar)
    mpc,          \* GUI thread: "idle", or the step of a disconnect it is in
    mcont,        \* what the GUI thread does once the join of its disconnect returns
    upc,          \* update worker: its position in UpdaterTab.update
    reconnect_after, \* update()'s local flag
    tmp_open,     \* enter_flash_mode's temporary handle is open
    dframe,       \* per thread: the handle serial held when its disconnect() began
    awaiting_version, \* CalibratorTab / CalibratorGUI .awaiting_version
    device_version,   \* .device_version ("None" = unknown)
    timers,       \* armed after(2000, _version_timeout) callbacks
    last,         \* the last SerialManager call that completed, for the record
    nq,           \* version queries sent so far: the n-th armed the n-th timer
    polled,       \* how many entries of the GUI's line queue _poll_serial_queue took
    sent_cmd,     \* the last send_cmd / SerialDevice.send call, for the record
    ser,          \* flash-joystick.py SerialDevice.ser: 0 (None) or 1 (a handle)
    cal,          \* test.py / oled_mirror.py: the calibration dict
    samp,         \* test.py / oled_mirror.py: raw_x, raw_y, norm, direction
    wk,           \* test.py / oled_mirror.py: the frame of serial_worker
    cap,          \* test.py / oled_mirror.py: the frame of a capture command
    fn,           \* test.py: one call of calibrated or apply_deadzone and its result
    view,         \* test.py: the frame of update(), the draw loop: vx, vy
    wiz,          \* the calibration wizard: its step, the commands its run issued
    dzc           \* the last set_deadzone call: what was entered, what was sent

smv == <<serial, smport, alive, read_thread, listeners, hs, threads>>

vars == <<prog, serial, smport, alive, read_thread, listeners, lock, hs, threads,
          recv, nlines, nfaults, nops, port_var, mpc, mcont, upc,
          reconnect_after, tmp_open, dframe, awaiting_version, device_version,
          timers, last, nq, polled, sent_cmd, ser, cal, samp, wk, cap, fn, view,
          wiz, dzc>>

\* what no dialog of the tools touches
Scripts == <<prog, cal, samp, wk, cap, fn, view>>

\* the state of the calibration scripts and of the dialogs
calv == <<cal, samp, wk, cap, fn, view, wiz, dzc>>

\* ------------------------------------------------------------ helpers
Range(s) == {s[i] : i \in 1..Len(s)}

\* list.remove(x): drops the first occurrence
RECURSIVE RemoveFirst(_, _)
RemoveFirst(s, x) ==
    IF s = <<>> THEN <<>>
    ELSE IF Head(s) = x THEN Tail(s)
    ELSE <<Head(s)>> \o RemoveFirst(Tail(s), x)

\* The SerialManager and what it owns, as one value, so that methods compose.
Cur == [serial |-> serial, smport |-> smport, alive |-> alive,
        read_thread |-> read_thread, listeners |-> listeners,
        hs |-> hs, threads |-> threads, exc |-> "none", sent |-> 0]

Commit(S) ==
    /\ serial' = S.serial
    /\ smport' = S.smport
    /\ alive' = S.alive
    /\ read_thread' = S.read_thread
    /\ listeners' = S.listeners
    /\ hs' = S.hs
    /\ threads' = S.threads

\* A reader thread: where it is in _read_loop ("check" the loop condition, "read"
\* in readline, "lock" waiting for the lock, "cb" calling the callbacks,
\* "blocked" in a callback that waits for the lock, "done" / "failed" ended),
\* the handle whose readline() it is in, the callbacks of its snapshot still to
\* call, the line it dispatches.
\* The last three are locals: they are reset when the loop leaves their scope.
NewThread == [pc |-> "check", h |-> 0, snap |-> <<>>, line |-> 0]

\* serial is set and serial.is_open
IsOpen(S) == S.serial # 0 /\ S.hs[S.serial].open

PortOf(S) == IF S.serial = 0 THEN NoPort ELSE S.hs[S.serial].port

\* ------------------------------------------- SerialManager, joystick_tool.py
\* add_listener: listeners.append(cb), no membership test
add_listener(S, cb) == [S EXCEPT !.listeners = Append(@, cb)]

\* remove_listener: if cb in listeners: listeners.remove(cb)
remove_listener(S, cb) == [S EXCEPT !.listeners = RemoveFirst(@, cb)]

\* connect(port) with its first two lines deleted: it opens a handle and starts a
\* reader even when a handle is open.  C7 fails of this variant.
tool_connect_reopens(S, port, ok) ==
    IF ~ok THEN [S EXCEPT !.exc = "SerialException"]
    ELSE [S EXCEPT !.hs = Append(@, [port |-> port, open |-> TRUE]),
                   !.serial = Len(S.hs) + 1,
                   !.alive = TRUE,
                   !.threads = Append(@, NewThread),
                   !.read_thread = Len(S.threads) + 1]

\* connect(port): returns at once when a handle is open, whatever its port.
\* `ok` is whether serial.Serial(port, ...) succeeds; when it raises, nothing
\* has been assigned yet.
tool_connect(S, port, ok) ==
    IF IsOpen(S) THEN S
    ELSE IF ~ok THEN [S EXCEPT !.exc = "SerialException"]
    ELSE [S EXCEPT !.hs = Append(@, [port |-> port, open |-> TRUE]),
                   !.serial = Len(S.hs) + 1,
                   !.alive = TRUE,
                   !.threads = Append(@, NewThread),
                   !.read_thread = Len(S.threads) + 1]

\* A disconnect that begins by dropping the listeners.  C30 fails of this
\* variant.
dis_clear_forgets(S) == [S EXCEPT !.alive = FALSE, !.listeners = <<>>]

\* disconnect, cut at the join: alive.clear() | join(0.5) | close | None
dis_clear(S) == [S EXCEPT !.alive = FALSE]

\* disconnect with its serial.close() deleted.  C9 fails of this variant.
dis_close_skipped(S) == S

dis_close(S) ==
    IF IsOpen(S) THEN [S EXCEPT !.hs[S.serial].open = FALSE] ELSE S

dis_none(S) == [S EXCEPT !.serial = 0]

\* write(data): silently does nothing when no handle is open
tool_write(S) ==
    IF IsOpen(S) THEN [S EXCEPT !.sent = 1] ELSE S

\* ------------------------------------------- SerialManager, calibrator_gui.py
\* disconnect up to the join: alive = False
gui_dis_begin(S) == [S EXCEPT !.alive = FALSE]

\* disconnect after the join: thread = None, serial.close(), serial = None,
\* port = None
gui_dis_end(S) ==
    [S EXCEPT !.read_thread = 0,
              !.hs = IF S.serial # 0 THEN [@ EXCEPT ![S.serial].open = FALSE] ELSE @,
              !.serial = 0,
              !.smport = NoPort]

\* connect(port) returns at once when open on the same port
gui_connect_returns(S, port) == IsOpen(S) /\ S.smport = port

\* connect(port) with the thread created and started before serial.Serial(...):
\* an open that raises leaves alive set and a reader thread behind.  C11 fails
\* of this variant.
gui_connect_thread_first(S, port, ok) ==
    IF ~ok THEN [S EXCEPT !.smport = port, !.exc = "SerialException",
                          !.alive = TRUE,
                          !.threads = Append(@, NewThread),
                          !.read_thread = Len(S.threads) + 1]
    ELSE [S EXCEPT !.smport = port,
                   !.hs = Append(@, [port |-> port, open |-> TRUE]),
                   !.serial = Len(S.hs) + 1,
                   !.alive = TRUE,
                   !.threads = Append(@, NewThread),
                   !.read_thread = Len(S.threads) + 1]

\* connect(port) after its own disconnect(): port is assigned before the open
gui_connect_open(S, port, ok) ==
    IF ~ok THEN [S EXCEPT !.smport = port, !.exc = "SerialException"]
    ELSE [S EXCEPT !.smport = port,
                   !.hs = Append(@, [port |-> port, open |-> TRUE]),
                   !.serial = Len(S.hs) + 1,
                   !.alive = TRUE,
                   !.threads = Append(@, NewThread),
                   !.read_thread = Len(S.threads) + 1]

\* write(cmd): raises RuntimeError('Serial not open') when closed
gui_write(S) ==
    IF IsOpen(S) THEN [S EXCEPT !.sent = 1] ELSE [S EXCEPT !.exc = "NotOpen"]

\* Thread.join(timeout=0.5) on thread t returns when t has finished, or when the
\* timeout expires: that takes t being held in readline() (a device that keeps
\* sending bytes and no newline restarts the 0.1 s read timeout byte by byte),
\* waiting for the lock, or inside a callback.
Finished(t) == t.pc \in {"done", "failed"}   \* the loop ended / broke on an error

JoinReturns(t) ==
    IF t = 0 THEN TRUE
    ELSE Finished(threads[t]) \/ threads[t].pc \in {"read", "lock", "cb", "blocked"}

\* ----------------------------------------------------------------- Init
OpBound == IF prog = TOOL THEN MaxOps ELSE MaxCalls

NoCall == [op |-> "none", port |-> NoPort, open |-> FALSE, same |-> FALSE,
           exc |-> "none", sent |-> 0]

\* The record of a completed SerialManager call: its argument, whether the
\* transport was open (and on that port) when it was called, what it raised and
\* how many times it called serial.write.
Call(op, port, S0, S1) ==
    [op |-> op, port |-> port, open |-> IsOpen(S0),
     same |-> (IsOpen(S0) /\ PortOf(S0) = port),
     exc |-> S1.exc, sent |-> S1.sent]

\* The record of a send_cmd / send call: whether the transport was open, how it
\* ended, how many times it called serial.write and how many newlines follow
\* the command text in what it wrote.
NoSend == [op |-> "none", open |-> FALSE, result |-> "none", writes |-> 0,
           newlines |-> 0]

\* raw ADC readings the device reports (12 bit, 0..4095)
RawVals == {1000, 3000}

\* What the device prints for a reading, "Raw: x,y | Norm: nx,ny | DIR", as the
\* worker sees it after line.replace("|", "").split(): "ok" parses, "badraw" has
\* a non-numeric parts[1], "badnorm" a missing or non-numeric parts[4], "other"
\* does not contain "Raw:".  Norm values are in thousandths.
DeviceLine(kind, x, y) ==
    [kind |-> kind, x |-> x, y |-> y, nx |-> (x - 2000) \div 2,
     ny |-> (y - 2000) \div 2,
     dir |-> IF x < 2000 THEN "LEFT" ELSE IF x > 2000 THEN "RIGHT"
             ELSE IF y < 2000 THEN "UP" ELSE IF y > 2000 THEN "DOWN"
             ELSE "CENTER"]

Lines ==
    {DeviceLine("ok", x, y) : x \in RawVals, y \in RawVals}
    \cup {DeviceLine(k, 3000, 1000) : k \in {"badraw", "badnorm", "other"}}

\* the worker holds no line
NoLine == [kind |-> "none", x |-> 0, y |-> 0, nx |-> 0, ny |-> 0, dir |-> "CENTER"]

\* ------------------------------------------------- numbers of the helpers
\* A Python float is kept as an exact fraction n / d with d > 0, in lowest
\* terms; exc names the exception a computation ended with.
RECURSIVE Gcd(_, _)
Gcd(a, b) == IF b = 0 THEN a ELSE Gcd(b, a % b)

Abs(i) == IF i < 0 THEN -i ELSE i

Q(n, d) ==
    LET g == Gcd(Abs(n), Abs(d))
        s == IF d < 0 THEN -1 ELSE 1
    IN [exc |-> "none", n |-> (s * n) \div g, d |-> (s * d) \div g]

Zero == Q(0, 1)
One == Q(1, 1)

ZeroDivisionError == [exc |-> "ZeroDivisionError", n |-> 0, d |-> 1]

QSub(a, b) == Q(a.n * b.d - b.n * a.d, a.d * b.d)
QAdd(a, b) == Q(a.n * b.d + b.n * a.d, a.d * b.d)
QDiv(a, b) == IF b.n = 0 THEN ZeroDivisionError ELSE Q(a.n * b.d, a.d * b.n)
QLt(a, b) == a.n * b.d < b.n * a.d
QAbs(a) == [a EXCEPT !.n = Abs(@)]

\* the calls of the helpers that are tried: raw values and extents on the 12 bit
\* range, a center that may be unset, deflections on the grid and beyond it,
\* dead zones inside and outside [0, 1)
RawIn == {0, 1000, 2048, 3000, 4095}
Deflections == {Q(k, Grid) : k \in (-Grid)..Grid} \cup {Q(2, 1), Q(-2, 1)}
Deadzones == {Zero, Q(1, 10), Q(1, 4), Q(1, 2), Q(9, 10), One, Q(3, 2)}

NoOut == [exc |-> "pending", n |-> 0, d |-> 1]

FnCalls ==
    {[f |-> "calibrated", val |-> val, c |-> c, mn |-> mn, mx |-> mx,
      v |-> Zero, dz |-> Zero, out |-> NoOut] :
        val \in RawIn, c \in RawIn \cup {None}, mn \in RawIn, mx \in RawIn}
    \cup
    {[f |-> "apply_deadzone", val |-> 0, c |-> None, mn |-> 0, mx |-> 0,
      v |-> v, dz |-> dz, out |-> NoOut] : v \in Deflections, dz \in Deadzones}

NoFn == [f |-> "none", val |-> 0, c |-> None, mn |-> 0, mx |-> 0,
         v |-> Zero, dz |-> Zero, out |-> NoOut]

\* What a user types into the dead zone entry: a text that is no number, a
\* number, or "nan", which float() accepts; and what askfloat returns: a number,
\* or None when the dialog is cancelled.
Entry(kind, f) == [kind |-> kind, f |-> f]
DzNumbers == {Q(-1, 10), Zero, Q(1, 5), Q(89, 100), Q(9, 10), Q(3, 2)}
DzEntries ==
    {Entry("num", f) : f \in DzNumbers} \cup {Entry("text", Zero), Entry("nan", Zero)}
DzAsked == {Entry("num", f) : f \in DzNumbers} \cup {Entry("none", Zero)}

\* no set_deadzone call was made
NoDz == [entry |-> Entry("none", Zero), result |-> "none", sent |-> NoSend]

\* nothing follows the disconnect the GUI thread is in
NoCont == [port |-> NoPort, query |-> FALSE, open |-> FALSE, same |-> FALSE]

Init ==
    /\ prog \in {TOOL, TOOLSM, GUI, GUISM, DEV, FWU, TEST, OLED, TESTFN}
    /\ serial = 0
    /\ smport = NoPort
    /\ alive = FALSE
    /\ read_thread = 0
    /\ listeners = <<>>
    /\ lock = 0
    /\ hs = <<>>
    /\ threads = <<>>
    /\ recv = [s \in Subs |-> <<>>]
    /\ nlines = 0
    /\ nfaults = 0
    /\ nops = 0
    /\ port_var \in {NoPort, "COM3"}   \* refresh_ports: ports[0] if any port exists
    /\ mpc = "idle"
    /\ mcont = NoCont
    /\ upc = "idle"
    /\ reconnect_after = FALSE
    /\ tmp_open = FALSE
    /\ dframe = [t \in {"main", "worker"} |-> 0]
    /\ awaiting_version = FALSE
    /\ device_version = "None"
    /\ timers = 0
    /\ last = NoCall
    /\ nq = 0
    /\ polled = 0
    /\ sent_cmd = NoSend
    /\ ser = 0
    /\ cal = [cx |-> None, cy |-> None, minx |-> 4095, maxx |-> 0,
              miny |-> 4095, maxy |-> 0]
    /\ samp = [raw_x |-> 0, raw_y |-> 0, norm_x |-> 0, norm_y |-> 0,
               direction |-> "CENTER"]
    /\ wk = [pc |-> "find", line |-> NoLine, n |-> 0]
    /\ cap = [pc |-> "idle", kind |-> "none", n |-> 0, rd |-> <<>>, args |-> <<>>]
    /\ fn \in (IF prog = TESTFN THEN FnCalls ELSE {NoFn})
    /\ view = [pc |-> "vx", vx |-> NoOut, vy |-> NoOut]
    /\ wiz = [step |-> "closed", cal |-> 0, next |-> 0, warned |-> FALSE]
    /\ dzc = NoDz

\* ------------------------------------------------------- the reader thread
SetThread(r, t) == threads' = [threads EXCEPT ![r] = t]

\* while alive and serial and serial.is_open: ... serial.readline()
ReaderCheck(r) ==
    /\ threads[r].pc = "check"
    /\ IF alive /\ IsOpen(Cur)
       THEN SetThread(r, [NewThread EXCEPT !.pc = "read", !.h = serial])
       ELSE SetThread(r, [NewThread EXCEPT !.pc = "done"])
    /\ UNCHANGED <<prog, calv, ser, polled, nq, sent_cmd, serial, smport, alive, read_thread, listeners, lock, hs,
                   recv, nlines, nfaults, nops, port_var, mpc, mcont, upc,
                   reconnect_after, tmp_open, dframe, awaiting_version, device_version,
                   timers, last>>

\* What the loop does with the outcome of readline(): a line is dispatched (to
\* the listeners under the lock, or put in the queue), the empty result of a
\* timeout sleeps and loops, an exception dispatches the error line and breaks.
ReaderGot(r, line) ==
    IF prog \in Shared
    THEN /\ SetThread(r, [NewThread EXCEPT !.pc = "lock", !.line = line])
         /\ recv' = recv
    ELSE /\ SetThread(r, [NewThread EXCEPT
                            !.pc = IF line = ERRLINE THEN "failed" ELSE "check"])
         /\ recv' = [recv EXCEPT ![OUTQ] = Append(@, line)]

ReaderRead(r) ==
    /\ threads[r].pc = "read"
    /\ \/ /\ ~hs[threads[r].h].open          \* the handle was closed under it: raises
          /\ ReaderGot(r, ERRLINE)
          /\ UNCHANGED <<nlines, nfaults>>
       \/ /\ hs[threads[r].h].open           \* a line
          /\ nlines + nfaults < MaxDev
          /\ nlines' = nlines + 1
          /\ \E v \in (IF prog = GUI THEN {0, 1} ELSE {0}) :
                ReaderGot(r, Line(nlines + 1, v))
          /\ UNCHANGED nfaults
       \/ /\ hs[threads[r].h].open           \* timeout: b'' -> sleep(0.01)
          /\ SetThread(r, NewThread)
          /\ UNCHANGED <<recv, nlines, nfaults>>
       \/ /\ hs[threads[r].h].open           \* the read raises
          /\ nlines + nfaults < MaxDev
          /\ nfaults' = nfaults + 1
          /\ ReaderGot(r, ERRLINE)
          /\ UNCHANGED nlines
    /\ UNCHANGED <<prog, calv, ser, polled, nq, sent_cmd, serial, smport, alive, read_thread, listeners, lock, hs,
                   nops, port_var, mpc, mcont, upc,
                   reconnect_after, tmp_open, dframe, awaiting_version, device_version,
                   timers, last>>

\* with self.lock: for cb in list(self.listeners): -- the lock and the snapshot
ReaderLock(r) ==
    /\ threads[r].pc = "lock"
    /\ lock = 0
    /\ lock' = r
    /\ SetThread(r, [threads[r] EXCEPT !.pc = "cb", !.snap = listeners])
    /\ UNCHANGED <<prog, calv, ser, polled, nq, sent_cmd, serial, smport, alive, read_thread, listeners, hs,
                   recv, nlines, nfaults, nops, port_var, mpc, mcont, upc,
                   reconnect_after, tmp_open, dframe, awaiting_version, device_version,
                   timers, last>>

\* What cb(line) does: it returns, it raises, or it never returns.
call(cb) ==
    IF cb = ONCE THEN "blocks" ELSE IF cb = BAD THEN "raises" ELSE "returns"

\* cb(line) with no try around it.  C12 fails of this variant.
unguarded_call(cb) == call(cb)

\* try: cb(line) / except Exception: pass
guarded_call(cb) == IF call(cb) = "raises" THEN "returns" ELSE call(cb)

\* cb(line) for the next callback of the snapshot, the lock still held; after the
\* last one the lock is released and the loop goes on (or breaks after an error).
\* The self-removing callback calls remove_listener, whose `with self.lock`
\* waits for the threading.Lock its own thread holds.
ReaderCallback(r) ==
    /\ threads[r].pc = "cb"
    /\ IF threads[r].snap = <<>>
       THEN /\ lock' = 0
            /\ SetThread(r, [NewThread EXCEPT
                   !.pc = IF threads[r].line = ERRLINE THEN "failed" ELSE "check"])
            /\ recv' = recv
       ELSE LET cb == Head(threads[r].snap) IN
            /\ recv' = [recv EXCEPT ![cb] = Append(@, threads[r].line)]
            /\ CASE guarded_call(cb) = "blocks" ->
                       /\ lock' = lock
                       /\ SetThread(r, [threads[r] EXCEPT !.pc = "blocked"])
                 [] guarded_call(cb) = "returns" ->
                       /\ lock' = lock
                       /\ SetThread(r, [threads[r] EXCEPT !.snap = Tail(@)])
                 [] guarded_call(cb) = "raises" ->
                       \* an exception that leaves the for and the with: the outer
                       \* except dispatches the error line, or the thread dies
                       /\ lock' = 0
                       /\ SetThread(r, IF threads[r].line = ERRLINE
                                       THEN [NewThread EXCEPT !.pc = "failed"]
                                       ELSE [NewThread EXCEPT !.pc = "lock",
                                                              !.line = ERRLINE])
    /\ UNCHANGED <<prog, calv, ser, polled, nq, sent_cmd, serial, smport, alive, read_thread, listeners, hs,
                   nlines, nfaults, nops, port_var, mpc, mcont, upc,
                   reconnect_after, tmp_open, dframe, awaiting_version, device_version,
                   timers, last>>

Reader ==
    \/ \E r \in 1..Len(threads) : ReaderCheck(r)
    \/ \E r \in 1..Len(threads) : ReaderRead(r)
    \/ \E r \in 1..Len(threads) : ReaderLock(r)
    \/ \E r \in 1..Len(threads) : ReaderCallback(r)

\* --------------------------------------------- the GUI thread, both programs
write(S) == IF prog \in Shared THEN tool_write(S) ELSE gui_write(S)

\* What the write of each manager puts after the data it is given:
\* joystick_tool writes data as it is, calibrator_gui writes (cmd + '\n').
tool_frame(newlines) == newlines
gui_frame(newlines) == newlines + 1

\* send_cmd(cmd) on manager state S.  joystick_tool: a 'Not Connected' warning
\* unless the manager is open, else write((cmd + '\n').encode()).
\* calibrator_gui: write(cmd) when the manager is open, else the legacy handle
\* (never set) is tested and the 'Not Connected' warning shown.
send_cmd(S) ==
    IF ~IsOpen(S)
    THEN [op |-> "send_cmd", open |-> FALSE, result |-> "NotConnected",
          writes |-> 0, newlines |-> 0]
    ELSE [op |-> "send_cmd", open |-> TRUE,
          result |-> IF write(S).exc = "none" THEN "sent" ELSE write(S).exc,
          writes |-> write(S).sent,
          newlines |-> IF prog \in Shared THEN tool_frame(0 + 1) ELSE gui_frame(0)]

\* query_device_version on manager state S: returns unless the manager is open;
\* awaiting_version = True; send_cmd('version'); after(2000, _version_timeout).
\* send_cmd finds the manager open and calls its write.
Query(S) ==
    IF IsOpen(S)
    THEN /\ awaiting_version' = TRUE
         /\ timers' = timers + 1
         /\ nq' = nq + 1
         /\ sent_cmd' = send_cmd(S)
         /\ last' = Call("write", NoPort, S, write(S))
    ELSE UNCHANGED <<awaiting_version, timers, last, nq, sent_cmd>>

\* _version_timeout, when its after() callback fires
VersionTimeout ==
    /\ mpc = "idle"
    /\ timers > 0
    /\ timers' = timers - 1
    /\ awaiting_version' = FALSE
    /\ device_version' = IF awaiting_version THEN "None" ELSE device_version
    /\ UNCHANGED <<prog, calv, ser, polled, nq, sent_cmd, serial, smport, alive, read_thread, listeners, lock, hs,
                   threads, recv, nlines, nfaults, nops, port_var, mpc, mcont, upc,
                   reconnect_after, tmp_open, dframe, last>>

\* The queue _poll_serial_queue empties: CalibratorTab.q, filled by
\* _on_serial_line, or calibrator_gui's queue, filled by its reader.
q == IF prog = TOOL THEN recv[CAL] ELSE recv[OUTQ]

\* _poll_serial_queue, one message: while awaiting_version a message matching
\* the FW_VERSION pattern sets device_version and clears the flag
poll_msg(msg, st) ==
    IF st.awaiting /\ IsVersionLine(msg)
    THEN [awaiting |-> FALSE, version |-> FWVER]
    ELSE st

\* _poll_serial_queue: get_nowait() until queue.Empty
RECURSIVE poll_queue(_, _)
poll_queue(msgs, st) ==
    IF msgs = <<>> THEN st
    ELSE poll_queue(Tail(msgs), poll_msg(Head(msgs), st))

\* _poll_serial_queue when its after(100, ...) callback fires with messages queued
Poll ==
    /\ prog \in {TOOL, GUI}
    /\ mpc = "idle"
    /\ polled < Len(q)
    /\ polled' = Len(q)
    /\ LET st == poll_queue(SubSeq(q, polled + 1, Len(q)),
                            [awaiting |-> awaiting_version, version |-> device_version])
       IN /\ awaiting_version' = st.awaiting
          /\ device_version' = st.version
    /\ UNCHANGED <<prog, calv, ser, nq, sent_cmd, serial, smport, alive,
                   read_thread, listeners, lock, hs, threads, recv, nlines, nfaults,
                   nops, port_var, mpc, mcont, upc, reconnect_after, tmp_open,
                   dframe, timers, last>>

\* SettingsTab.apply / the settings dialog: the port selection changes
SetPort(p) ==
    /\ prog \in {TOOL, GUI}
    /\ mpc = "idle"
    /\ nops < OpBound
    /\ p # port_var
    /\ port_var' = p
    /\ nops' = nops + 1
    /\ UNCHANGED <<prog, calv, ser, polled, nq, sent_cmd, serial, smport, alive, read_thread, listeners, lock, hs,
                   threads, recv, nlines, nfaults, mpc, mcont, upc,
                   reconnect_after, tmp_open, dframe, awaiting_version,
                   device_version, timers, last>>

\* send_cmd(cmd) of either program: a warning when the manager is not open,
\* else the manager's write
SendCmd ==
    /\ prog \in {TOOL, GUI}
    /\ mpc = "idle"
    /\ nops < OpBound
    /\ nops' = nops + 1
    /\ last' = IF IsOpen(Cur) THEN Call("write", NoPort, Cur, write(Cur)) ELSE last
    /\ sent_cmd' = send_cmd(Cur)
    /\ nq' = nq
    /\ UNCHANGED <<prog, calv, ser, polled, serial, smport, alive, read_thread, listeners, lock, hs,
                   threads, recv, nlines, nfaults, port_var, mpc, mcont, upc,
                   reconnect_after, tmp_open, dframe, awaiting_version,
                   device_version, timers>>

\* SerialManager.write called by any client of the class
ApiWrite ==
    /\ prog \in {TOOLSM, GUISM}
    /\ mpc = "idle"
    /\ nops < OpBound
    /\ nops' = nops + 1
    /\ last' = Call("write", NoPort, Cur, write(Cur))
    /\ UNCHANGED <<prog, calv, ser, polled, nq, sent_cmd, serial, smport, alive, read_thread, listeners, lock, hs,
                   threads, recv, nlines, nfaults, port_var, mpc, mcont, upc,
                   reconnect_after, tmp_open, dframe, awaiting_version,
                   device_version, timers>>

\* ------------------------------------------ the GUI thread, joystick_tool.py
\* CalibratorTab.connect (the Connect button and _auto_connect): add_listener,
\* connect unless the manager is open, query_device_version.  With no port
\* selected it warns and returns.  add_listener needs the lock.
CalConnect(ok) ==
    /\ prog = TOOL
    /\ mpc = "idle"
    /\ nops < OpBound
    /\ port_var # NoPort
    /\ lock = 0
    /\ nops' = nops + 1
    /\ LET S1 == add_listener(Cur, CAL)
           S2 == IF IsOpen(S1) THEN S1 ELSE tool_connect(S1, port_var, ok)
       IN /\ Commit(S2)
          /\ IF S2.exc # "none"
             THEN /\ last' = Call("connect", port_var, S1, S2)
                  /\ UNCHANGED <<awaiting_version, timers, nq, sent_cmd>>
             ELSE Query(S2)
    /\ UNCHANGED <<prog, calv, ser, polled, lock, recv, nlines, nfaults, port_var, mpc, mcont, upc,
                   reconnect_after, tmp_open, dframe, device_version>>

\* CalibratorTab.disconnect with the shared manager: only remove_listener
CalDisconnect ==
    /\ prog = TOOL
    /\ mpc = "idle"
    /\ nops < OpBound
    /\ lock = 0
    /\ nops' = nops + 1
    /\ Commit(remove_listener(Cur, CAL))
    /\ UNCHANGED <<prog, calv, ser, polled, nq, sent_cmd, lock, recv, nlines, nfaults, port_var, mpc, mcont, upc,
                   reconnect_after, tmp_open, dframe, awaiting_version,
                   device_version, timers, last>>

\* add_listener(cb) called by a client of the class, once per callback
ApiAddListener(cb) ==
    /\ prog = TOOLSM
    /\ mpc = "idle"
    /\ nops < OpBound
    /\ lock = 0
    /\ cb \notin Range(listeners)
    /\ nops' = nops + 1
    /\ Commit(add_listener(Cur, cb))
    /\ UNCHANGED <<prog, calv, ser, polled, nq, sent_cmd, lock, recv, nlines, nfaults, port_var, mpc, mcont, upc,
                   reconnect_after, tmp_open, dframe, awaiting_version,
                   device_version, timers, last>>

\* remove_listener(cb) called by a client of the class from the GUI thread
ApiRemoveListener(cb) ==
    /\ prog = TOOLSM
    /\ mpc = "idle"
    /\ nops < OpBound
    /\ lock = 0
    /\ cb \in Range(listeners)
    /\ nops' = nops + 1
    /\ Commit(remove_listener(Cur, cb))
    /\ UNCHANGED <<prog, calv, ser, polled, nq, sent_cmd, lock, recv, nlines, nfaults, port_var, mpc, mcont, upc,
                   reconnect_after, tmp_open, dframe, awaiting_version,
                   device_version, timers, last>>

\* SerialManager.connect(port) called by any client of the class
ToolApiConnect(p, ok) ==
    /\ prog = TOOLSM
    /\ mpc = "idle"
    /\ nops < OpBound
    /\ nops' = nops + 1
    /\ LET S == tool_connect(Cur, p, ok)
       IN /\ Commit(S)
          /\ last' = Call("connect", p, Cur, S)
    /\ UNCHANGED <<prog, calv, ser, polled, nq, sent_cmd, lock, recv, nlines, nfaults, port_var, mpc, mcont, upc,
                   reconnect_after, tmp_open, dframe, awaiting_version,
                   device_version, timers>>

\* ------------------------- SerialManager.disconnect, joystick_tool.py, by steps
DisDone(t) == [op |-> "disconnect", port |-> NoPort, open |-> dframe[t] # 0,
               same |-> FALSE, exc |-> "none", sent |-> 0]

\* alive.clear()
ToolDisClear(t) ==
    /\ Commit(dis_clear(Cur))
    /\ dframe' = [dframe EXCEPT ![t] = IF IsOpen(Cur) THEN serial ELSE 0]
    /\ last' = last

\* if self.read_thread: self.read_thread.join(timeout=0.5)
ToolDisJoin(t) ==
    /\ JoinReturns(read_thread)
    /\ UNCHANGED <<smv, dframe, last>>

\* if self.serial and self.serial.is_open: self.serial.close()
ToolDisClose(t) ==
    /\ Commit(dis_close(Cur))
    /\ UNCHANGED <<dframe, last>>

\* self.serial = None
ToolDisNone(t) ==
    /\ Commit(dis_none(Cur))
    /\ last' = DisDone(t)
    /\ dframe' = [dframe EXCEPT ![t] = 0]

ToolDisStep(t, pc) ==
    CASE pc = "dis_clear" -> ToolDisClear(t)
      [] pc = "dis_join"  -> ToolDisJoin(t)
      [] pc = "dis_close" -> ToolDisClose(t)
      [] pc = "dis_none"  -> ToolDisNone(t)

DisNext(pc, after) ==
    CASE pc = "dis_clear" -> "dis_join"
      [] pc = "dis_join"  -> "dis_close"
      [] pc = "dis_close" -> "dis_none"
      [] pc = "dis_none"  -> after

DisPcs == {"dis_clear", "dis_join", "dis_close", "dis_none"}

\* SerialManager.disconnect() called by any client of the class, on the GUI thread
ToolApiDisconnect ==
    /\ prog = TOOLSM
    /\ mpc = "idle"
    /\ nops < OpBound
    /\ nops' = nops + 1
    /\ ToolDisStep("main", "dis_clear")
    /\ mpc' = "dis_join"
    /\ UNCHANGED <<prog, calv, ser, polled, nq, sent_cmd, lock, recv, nlines, nfaults, port_var, mcont, upc,
                   reconnect_after, tmp_open, awaiting_version,
                   device_version, timers>>

ToolMainDisconnecting ==
    /\ prog = TOOLSM
    /\ mpc \in DisPcs
    /\ ToolDisStep("main", mpc)
    /\ mpc' = DisNext(mpc, "idle")
    /\ UNCHANGED <<prog, calv, ser, polled, nq, sent_cmd, lock, recv, nlines, nfaults, nops, port_var, mcont, upc,
                   reconnect_after, tmp_open, awaiting_version,
                   device_version, timers>>

\* ------------------------- UpdaterTab.update, the worker thread of joystick_tool
\* start_update: threading.Thread(target=self.update).start()
StartUpdate ==
    /\ prog = TOOL
    /\ mpc = "idle"
    /\ nops < OpBound
    /\ upc = "idle"
    /\ nops' = nops + 1
    /\ upc' = "flash_mode"
    /\ reconnect_after' = FALSE
    /\ UNCHANGED <<prog, calv, ser, polled, nq, sent_cmd, smv, lock, recv, nlines, nfaults, port_var, mpc, mcont,
                   tmp_open, dframe, awaiting_version, device_version, timers, last>>

UKeep == <<prog, calv, ser, polled, nq, sent_cmd, recv, nlines, nfaults, nops, port_var, mpc, mcont,
           awaiting_version, device_version, timers>>

\* enter_flash_mode: s = serial.Serial(port) (may raise), DTR/RTS toggled ...
UpdFlashOpen(ok) ==
    /\ upc = "flash_mode"
    /\ ok => port_var # NoPort
    /\ tmp_open' = ok
    /\ upc' = IF ok THEN "flash_close" ELSE "rel_check"
    /\ UNCHANGED <<UKeep, smv, lock, dframe, reconnect_after, last>>

\* ... s.close()
UpdFlashClose ==
    /\ upc = "flash_close"
    /\ tmp_open' = FALSE
    /\ upc' = "rel_check"
    /\ UNCHANGED <<UKeep, smv, lock, dframe, reconnect_after, last>>

\* if self.serial_manager.is_open:
UpdRelCheck ==
    /\ upc = "rel_check"
    /\ upc' = IF IsOpen(Cur) THEN "rel_remove" ELSE "erase"
    /\ UNCHANGED <<UKeep, smv, lock, dframe, reconnect_after, tmp_open, last>>

\* remove_listener(self._manager_log_cb)
UpdRelRemove ==
    /\ upc = "rel_remove"
    /\ lock = 0
    /\ Commit(remove_listener(Cur, UPD))
    /\ upc' = "dis_clear"
    /\ UNCHANGED <<UKeep, lock, dframe, reconnect_after, tmp_open, last>>

\* self.serial_manager.disconnect(); reconnect_after = True
UpdDisconnecting ==
    /\ upc \in DisPcs
    /\ ToolDisStep("worker", upc)
    /\ upc' = DisNext(upc, "erase")
    /\ reconnect_after' = IF upc = "dis_none" THEN TRUE ELSE reconnect_after
    /\ UNCHANGED <<UKeep, lock, tmp_open>>

\* esptool is running while upc is "erase" or "write"; this is one of them ending
Flashing == upc \in {"erase", "write"}

UpdEsptoolEnds(ok) ==
    /\ Flashing
    /\ upc' = IF ~ok THEN (IF reconnect_after THEN "fail_connect" ELSE "idle")
              ELSE IF upc = "erase" THEN "write"
              ELSE IF reconnect_after THEN "ok_connect" ELSE "final"
    /\ UNCHANGED <<UKeep, smv, lock, dframe, reconnect_after, tmp_open, last>>

\* serial_manager.connect(port) of a reconnect; when it raises, the add_listener
\* that follows in the same try is skipped
UpdReconnect(ok) ==
    /\ upc \in {"fail_connect", "ok_connect"}
    /\ ok => port_var # NoPort
    /\ LET S == tool_connect(Cur, port_var, ok)
       IN /\ Commit(S)
          /\ last' = Call("connect", port_var, Cur, S)
          /\ upc' = IF upc = "fail_connect"
                    THEN (IF S.exc = "none" THEN "fail_add" ELSE "idle")
                    ELSE (IF S.exc = "none" THEN "ok_add" ELSE "final")
    /\ UNCHANGED <<UKeep, lock, dframe, reconnect_after, tmp_open>>

\* serial_manager.add_listener(self._manager_log_cb) of a reconnect
UpdReAdd ==
    /\ upc \in {"fail_add", "ok_add"}
    /\ lock = 0
    /\ Commit(add_listener(Cur, UPD))
    /\ upc' = IF upc = "fail_add" THEN "idle" ELSE "final"
    /\ UNCHANGED <<UKeep, lock, dframe, reconnect_after, tmp_open, last>>

\* after time.sleep(2): add_listener(self._manager_log_cb); connect unless open
UpdFinal(ok) ==
    /\ upc = "final"
    /\ lock = 0
    /\ ok => port_var # NoPort
    /\ LET S1 == add_listener(Cur, UPD)
           S2 == IF IsOpen(S1) THEN S1 ELSE tool_connect(S1, port_var, ok)
       IN /\ Commit(S2)
          /\ last' = IF IsOpen(S1) THEN last ELSE Call("connect", port_var, S1, S2)
    /\ upc' = "idle"
    /\ UNCHANGED <<UKeep, lock, dframe, reconnect_after, tmp_open>>

Updater ==
    \/ \E ok \in BOOLEAN : UpdFlashOpen(ok)
    \/ UpdFlashClose
    \/ UpdRelCheck
    \/ UpdRelRemove
    \/ UpdDisconnecting
    \/ \E ok \in BOOLEAN : UpdEsptoolEnds(ok)
    \/ \E ok \in BOOLEAN : UpdReconnect(ok)
    \/ UpdReAdd
    \/ \E ok \in BOOLEAN : UpdFinal(ok)

\* ------------------------------------------ the GUI thread, calibrator_gui.py
\* How a connect call ends: an exception is shown and the handler returns; a
\* successful CalibratorGUI.connect goes on to query_device_version.
ConnectEnds(open, same, S, port, query) ==
    IF S.exc = "none" /\ query
    THEN Query(S)
    ELSE /\ last' = [op |-> "connect", port |-> port, open |-> open, same |-> same,
                     exc |-> S.exc, sent |-> 0]
         /\ UNCHANGED <<awaiting_version, timers, nq, sent_cmd>>

\* SerialManager.connect(port): return when open on port; else disconnect()
\* (which joins a thread if there is one) and open.
GuiConnectFlow(port, query, ok) ==
    LET S    == Cur
        open == IsOpen(S)
        same == IsOpen(S) /\ PortOf(S) = port
    IN IF gui_connect_returns(S, port)
       THEN /\ ConnectEnds(open, same, S, port, query)
            /\ UNCHANGED <<smv, mpc, mcont, dframe>>
       ELSE IF S.read_thread # 0
       THEN /\ Commit(gui_dis_begin(S))
            /\ mpc' = "join"
            /\ mcont' = [port |-> port, query |-> query, open |-> open, same |-> same]
            /\ dframe' = [dframe EXCEPT !["main"] = IF open THEN serial ELSE 0]
            /\ UNCHANGED <<awaiting_version, timers, last, nq, sent_cmd>>
       ELSE LET S3 == gui_connect_open(gui_dis_end(gui_dis_begin(S)), port, ok)
            IN /\ Commit(S3)
               /\ ConnectEnds(open, same, S3, port, query)
               /\ UNCHANGED <<mpc, mcont, dframe>>

\* CalibratorGUI.connect: a warning with no port selected; a disconnect when the
\* manager is open on another port (the manager's connect would do the same);
\* the manager's connect; query_device_version
GuiConnect(ok) ==
    /\ prog = GUI
    /\ mpc = "idle"
    /\ nops < OpBound
    /\ port_var # NoPort
    /\ nops' = nops + 1
    /\ GuiConnectFlow(port_var, TRUE, ok)
    /\ UNCHANGED <<prog, calv, ser, polled, lock, recv, nlines, nfaults, port_var, upc,
                   reconnect_after, tmp_open, device_version>>

\* SerialManager.connect(port) called by any client of the class
GuiApiConnect(p, ok) ==
    /\ prog = GUISM
    /\ mpc = "idle"
    /\ nops < OpBound
    /\ nops' = nops + 1
    /\ GuiConnectFlow(p, FALSE, ok)
    /\ UNCHANGED <<prog, calv, ser, polled, lock, recv, nlines, nfaults, port_var, upc,
                   reconnect_after, tmp_open, device_version>>

\* SerialManager.disconnect up to its join or, with no thread, to its end; called
\* by a client of the class or by CalibratorGUI.disconnect (whose legacy cleanup
\* that follows finds self.serial None and no thread)
GuiDisconnect ==
    /\ prog \in Queued
    /\ mpc = "idle"
    /\ nops < OpBound
    /\ nops' = nops + 1
    /\ IF read_thread # 0
       THEN /\ Commit(gui_dis_begin(Cur))
            /\ dframe' = [dframe EXCEPT !["main"] = IF IsOpen(Cur) THEN serial ELSE 0]
            /\ mpc' = "join"
            /\ mcont' = NoCont
            /\ last' = last
       ELSE /\ Commit(gui_dis_end(gui_dis_begin(Cur)))
            /\ last' = [op |-> "disconnect", port |-> NoPort, open |-> IsOpen(Cur),
                        same |-> FALSE, exc |-> "none", sent |-> 0]
            /\ UNCHANGED <<mpc, mcont, dframe>>
    /\ UNCHANGED <<prog, calv, ser, polled, nq, sent_cmd, lock, recv, nlines, nfaults, port_var, upc,
                   reconnect_after, tmp_open, awaiting_version, device_version,
                   timers>>

\* thread.join(timeout=0.5) returns: the rest of disconnect, then the rest of
\* the connect that called it
GuiJoin(ok) ==
    /\ prog \in Queued
    /\ mpc = "join"
    /\ JoinReturns(read_thread)
    /\ mpc' = "idle"
    /\ mcont' = NoCont
    /\ IF mcont.port = NoPort
       THEN /\ Commit(gui_dis_end(Cur))
            /\ last' = DisDone("main")
            /\ UNCHANGED <<awaiting_version, timers, nq, sent_cmd>>
       ELSE LET S3 == gui_connect_open(gui_dis_end(Cur), mcont.port, ok)
            IN /\ Commit(S3)
               /\ ConnectEnds(mcont.open, mcont.same, S3, mcont.port, mcont.query)
    /\ dframe' = [dframe EXCEPT !["main"] = 0]
    /\ UNCHANGED <<prog, calv, ser, polled, lock, recv, nlines, nfaults, nops, port_var, upc,
                   reconnect_after, tmp_open, device_version>>

\* ------------------------------------------- SerialDevice, flash-joystick.py
\* connect(): find_device() may find no port (returns False); serial.Serial may
\* raise; else ser is the new handle.  It does not close a handle it holds.
DevConnect(found, ok) ==
    /\ prog = DEV
    /\ nops < OpBound
    /\ nops' = nops + 1
    /\ ser' = IF found /\ ok THEN 1 ELSE ser
    /\ UNCHANGED <<prog, calv, polled, nq, sent_cmd, smv, lock, recv, nlines,
                   nfaults, port_var, mpc, mcont, upc, reconnect_after, tmp_open,
                   dframe, awaiting_version, device_version, timers, last>>

\* send(cmd): returns "" when ser is None, else ser.write((cmd + "\n").encode())
\* and returns what read_all() gives
dev_send(h) ==
    IF h = 0
    THEN [op |-> "send", open |-> FALSE, result |-> "returned_empty",
          writes |-> 0, newlines |-> 0]
    ELSE [op |-> "send", open |-> TRUE, result |-> "sent",
          writes |-> 1, newlines |-> 0 + 1]

DevSend ==
    /\ prog = DEV
    /\ nops < OpBound
    /\ nops' = nops + 1
    /\ sent_cmd' = dev_send(ser)
    /\ UNCHANGED <<prog, calv, ser, polled, nq, smv, lock, recv, nlines,
                   nfaults, port_var, mpc, mcont, upc, reconnect_after, tmp_open,
                   dframe, awaiting_version, device_version, timers, last>>

\* close(): if self.ser: self.ser.close(); self.ser = None
DevClose ==
    /\ prog = DEV
    /\ nops < OpBound
    /\ nops' = nops + 1
    /\ ser' = 0
    /\ UNCHANGED <<prog, calv, polled, nq, sent_cmd, smv, lock, recv, nlines,
                   nfaults, port_var, mpc, mcont, upc, reconnect_after, tmp_open,
                   dframe, awaiting_version, device_version, timers, last>>

Device ==
    \/ \E found, ok \in BOOLEAN : DevConnect(found, ok)
    \/ DevSend
    \/ DevClose

\* ------------------------------------------ FirmwareUpdater, flash-joystick.py
\* The first script of the file: self.ser is the handle of its serial monitor
\* (an index in hs, 0 = None), read_serial runs in a thread per start_serial,
\* update runs in a worker thread.  What none of it touches:
FwKeep == <<prog, calv, polled, nq, sent_cmd, serial, smport, alive, read_thread,
            listeners, lock, recv, port_var, mpc, mcont, reconnect_after, dframe,
            awaiting_version, device_version, timers, last>>

\* start_update: threading.Thread(target=self.update).start(); update() up to
\* enter_flash_mode: a download that fails raises into the outer except
FwStartUpdate(ok) ==
    /\ prog = FWU
    /\ upc = "idle"
    /\ nops < OpBound
    /\ nops' = nops + 1
    /\ upc' = IF ok THEN "fm_close" ELSE "idle"
    /\ UNCHANGED <<FwKeep, ser, hs, threads, tmp_open, nlines, nfaults>>

\* enter_flash_mode: if self.ser: self.ser.close() ...
FwFlashClose ==
    /\ prog = FWU
    /\ upc = "fm_close"
    /\ hs' = IF ser # 0 THEN [hs EXCEPT ![ser].open = FALSE] ELSE hs
    /\ upc' = IF ser # 0 THEN "fm_none" ELSE "fm_open"
    /\ UNCHANGED <<FwKeep, ser, threads, tmp_open, nops, nlines, nfaults>>

\* ... self.ser = None
FwFlashNone ==
    /\ prog = FWU
    /\ upc = "fm_none"
    /\ ser' = 0
    /\ upc' = "fm_open"
    /\ UNCHANGED <<FwKeep, hs, threads, tmp_open, nops, nlines, nfaults>>

\* s = serial.Serial(port) (an exception is logged), DTR/RTS toggled ...
FwFlashOpen(ok) ==
    /\ prog = FWU
    /\ upc = "fm_open"
    /\ ok => port_var # NoPort
    /\ tmp_open' = ok
    /\ upc' = IF ok THEN "fm_tmpclose" ELSE "erase"
    /\ UNCHANGED <<FwKeep, ser, hs, threads, nops, nlines, nfaults>>

\* ... s.close()
FwFlashTmpClose ==
    /\ prog = FWU
    /\ upc = "fm_tmpclose"
    /\ tmp_open' = FALSE
    /\ upc' = "erase"
    /\ UNCHANGED <<FwKeep, ser, hs, threads, nops, nlines, nfaults>>

\* subprocess.run(esptool ..., check=True) ends: a failure raises into the outer
\* except, which shows the error and returns
FwEsptoolEnds(ok) ==
    /\ prog = FWU
    /\ Flashing
    /\ upc' = IF ~ok THEN "idle" ELSE IF upc = "erase" THEN "write" ELSE "final"
    /\ UNCHANGED <<FwKeep, ser, hs, threads, tmp_open, nops, nlines, nfaults>>

\* start_serial, called at the end of a successful update: returns when self.ser
\* is set; else self.ser = serial.Serial(port) and the reader thread is started
\* (an exception is logged)
FwStartSerial(ok) ==
    /\ prog = FWU
    /\ upc = "final"
    /\ ok => port_var # NoPort
    /\ upc' = "idle"
    /\ IF ser = 0 /\ ok
       THEN /\ hs' = Append(hs, [port |-> port_var, open |-> TRUE])
            /\ ser' = Len(hs) + 1
            /\ threads' = Append(threads, [NewThread EXCEPT !.pc = "fw_check"])
       ELSE UNCHANGED <<ser, hs, threads>>
    /\ UNCHANGED <<FwKeep, tmp_open, nops, nlines, nfaults>>

\* read_serial: while self.ser:
FwReaderCheck(r) ==
    /\ threads[r].pc = "fw_check"
    /\ SetThread(r, [NewThread EXCEPT !.pc = IF ser # 0 THEN "fw_call" ELSE "done"])
    /\ UNCHANGED <<FwKeep, ser, hs, upc, tmp_open, nops, nlines, nfaults>>

\* self.ser.readline() is entered: self.ser is read again, and None has no
\* readline (the bare except breaks)
FwReaderCall(r) ==
    /\ threads[r].pc = "fw_call"
    /\ SetThread(r, IF ser = 0 THEN [NewThread EXCEPT !.pc = "failed"]
                    ELSE [NewThread EXCEPT !.pc = "fw_read", !.h = ser])
    /\ UNCHANGED <<FwKeep, ser, hs, upc, tmp_open, nops, nlines, nfaults>>

\* readline() returns a line (logged) or nothing, or raises (break).  On a handle
\* closed under it, it raises or returns nothing.
FwReaderRead(r) ==
    /\ threads[r].pc = "fw_read"
    /\ \/ /\ ~hs[threads[r].h].open
          /\ \E raises \in BOOLEAN :
                SetThread(r, [NewThread EXCEPT
                                !.pc = IF raises THEN "failed" ELSE "fw_check"])
          /\ UNCHANGED <<nlines, nfaults>>
       \/ /\ hs[threads[r].h].open
          /\ nlines + nfaults < MaxDev
          /\ nlines' = nlines + 1
          /\ SetThread(r, [NewThread EXCEPT !.pc = "fw_check"])
          /\ UNCHANGED nfaults
       \/ /\ hs[threads[r].h].open
          /\ SetThread(r, [NewThread EXCEPT !.pc = "fw_check"])
          /\ UNCHANGED <<nlines, nfaults>>
       \/ /\ hs[threads[r].h].open
          /\ nlines + nfaults < MaxDev
          /\ nfaults' = nfaults + 1
          /\ SetThread(r, [NewThread EXCEPT !.pc = "failed"])
          /\ UNCHANGED nlines
    /\ UNCHANGED <<FwKeep, ser, hs, upc, tmp_open, nops>>

Flasher ==
    \/ \E ok \in BOOLEAN : FwStartUpdate(ok)
    \/ FwFlashClose
    \/ FwFlashNone
    \/ \E ok \in BOOLEAN : FwFlashOpen(ok)
    \/ FwFlashTmpClose
    \/ \E ok \in BOOLEAN : FwEsptoolEnds(ok)
    \/ \E ok \in BOOLEAN : FwStartSerial(ok)
    \/ \E r \in 1..Len(threads) : FwReaderCheck(r)
    \/ \E r \in 1..Len(threads) : FwReaderCall(r)
    \/ \E r \in 1..Len(threads) : FwReaderRead(r)

\* -------------------------------------------------------------- set_deadzone
\* f < 0 or f >= 0.9; every comparison with nan is False
out_of_range(e) ==
    e.kind # "nan" /\ (QLt(e.f, Zero) \/ ~QLt(e.f, Q(9, 10)))

\* CalibratorGUI.set_deadzone / CalibratorTab.set_deadzone with the entry e on
\* manager state S: float(val) raises ValueError for a text; a warning and no
\* command for either failure; else send_cmd(f"set_deadzone {f}")
set_deadzone(e, S) ==
    IF e.kind = "text" THEN [entry |-> e, result |-> "InvalidValue", sent |-> NoSend]
    ELSE IF out_of_range(e) THEN [entry |-> e, result |-> "OutOfRange", sent |-> NoSend]
    ELSE [entry |-> e, result |-> "send_cmd", sent |-> send_cmd(S)]

\* the 'Set Deadzone' button of calibrator_gui.py and of the Calibrator tab
SetDeadzone(e) ==
    /\ prog \in {GUI, TOOL}
    /\ mpc = "idle"
    /\ wiz.step = "closed"
    /\ nops < OpBound
    /\ nops' = nops + 1
    /\ dzc' = set_deadzone(e, Cur)
    /\ sent_cmd' = IF dzc'.result = "send_cmd" THEN dzc'.sent ELSE sent_cmd
    /\ last' = IF dzc'.result = "send_cmd" /\ IsOpen(Cur)
               THEN Call("write", NoPort, Cur, write(Cur)) ELSE last
    /\ UNCHANGED <<Scripts, smv, lock, recv, nlines, nfaults, port_var, mpc,
                   mcont, upc, reconnect_after, tmp_open, dframe,
                   awaiting_version, device_version, timers, nq, polled, ser,
                   wiz>>

\* App.set_deadzone of flash-joystick.py with what askfloat returned on handle
\* h: any float is sent as it is.  `tk.simpledialog` is an attribute of tkinter
\* only if some import has loaded that submodule; the script imports
\* messagebox and filedialog, so whether it is there depends on the Python
\* version: if not, the call raises AttributeError before any dialog.
dev_set_deadzone(loaded, e, h) ==
    IF ~loaded THEN [entry |-> e, result |-> "AttributeError", sent |-> NoSend]
    ELSE IF e.kind = "none" THEN [entry |-> e, result |-> "cancelled", sent |-> NoSend]
    ELSE [entry |-> e, result |-> "send", sent |-> dev_send(h)]

DevSetDeadzone(loaded, e) ==
    /\ prog = DEV
    /\ wiz.step = "closed"
    /\ nops < OpBound
    /\ nops' = nops + 1
    /\ dzc' = dev_set_deadzone(loaded, e, ser)
    /\ sent_cmd' = IF dzc'.result = "send" THEN dzc'.sent ELSE sent_cmd
    /\ UNCHANGED <<Scripts, smv, lock, recv, nlines, nfaults, port_var, mpc,
                   mcont, upc, reconnect_after, tmp_open, dframe,
                   awaiting_version, device_version, timers, nq, polled, ser,
                   last, wiz>>

\* ------------------------------------------------------ calibration wizard
\* CalibratorTab.serial: set to None in __init__; the only assignment of a
\* handle is in the branch of connect that runs without a shared manager, and
\* JoystickToolApp always passes one.
tab_serial == 0

\* the test that opens open_calibration_dialog: calibrator_gui.py asks the
\* shared manager, joystick_tool.py asks the tab's own handle
wizard_connected(S) == IF prog = TOOL THEN tab_serial # 0 ELSE IsOpen(S)

NoWizard == [step |-> "closed", cal |-> 0, next |-> 0, warned |-> FALSE]

\* open_calibration_dialog up to wait_window: the 'Not Connected' warning, or
\* send_cmd("cal") and the dialog showing steps[0]
open_calibration_dialog(S) ==
    IF ~wizard_connected(S) THEN [NoWizard EXCEPT !.warned = TRUE]
    ELSE [step |-> "Center", cal |-> 1, next |-> 0, warned |-> FALSE]

\* A first button that stays bound to on_next.  C28 fails of this variant.
next_btn_command_kept(w) == "on_next"

\* the command of the first button: on_next, until on_next has rebound it to
\* dlg.destroy when step_state['index'] >= len(steps) - 1
next_btn_command(w) == IF w.step = "Done" THEN "destroy" ELSE "on_next"

\* on_next: send_cmd("next"); step_state['index'] += 1; the instruction of a
\* step past the last one is left as it is
on_next(w) ==
    [w EXCEPT !.next = @ + 1,
              !.step = IF @ = "Center" THEN "Extremes" ELSE "Done"]

\* a send_cmd of a dialog on the manager as it is
DialogSends ==
    /\ sent_cmd' = send_cmd(Cur)
    /\ last' = IF IsOpen(Cur) THEN Call("write", NoPort, Cur, write(Cur)) ELSE last

UiKeep ==
    <<Scripts, smv, lock, recv, nlines, nfaults, port_var, mpc, mcont, upc,
      reconnect_after, tmp_open, dframe, awaiting_version, device_version,
      timers, nq, polled, ser, dzc>>

\* the 'Calibrate' button of calibrator_gui.py and of the Calibrator tab
WizardOpen ==
    /\ prog \in {GUI, TOOL}
    /\ mpc = "idle"
    /\ wiz.step = "closed"
    /\ nops < OpBound
    /\ nops' = nops + 1
    /\ wiz' = open_calibration_dialog(Cur)
    /\ IF wiz'.step = "Center" THEN DialogSends ELSE UNCHANGED <<sent_cmd, last>>
    /\ UNCHANGED UiKeep

\* the first button of the dialog is pressed
WizardButton ==
    /\ prog \in {GUI, TOOL}
    /\ wiz.step \notin {"closed"}
    /\ IF next_btn_command(wiz) = "on_next"
       THEN wiz' = on_next(wiz) /\ DialogSends
       ELSE wiz' = [wiz EXCEPT !.step = "closed"] /\ UNCHANGED <<sent_cmd, last>>
    /\ UNCHANGED <<UiKeep, nops>>

\* on_cancel: dlg.destroy()
WizardCancel ==
    /\ prog \in {GUI, TOOL}
    /\ wiz.step \notin {"closed"}
    /\ wiz' = [wiz EXCEPT !.step = "closed"]
    /\ UNCHANGED <<UiKeep, nops, sent_cmd, last>>

\* App.calibrate of flash-joystick.py is called: the first showinfo, "Center
\* the stick, then press OK", is up
DevCalibrate ==
    /\ prog = DEV
    /\ wiz.step = "closed"
    /\ nops < OpBound
    /\ nops' = nops + 1
    /\ wiz' = [step |-> "Center", cal |-> 0, next |-> 0, warned |-> FALSE]
    /\ UNCHANGED <<UiKeep, sent_cmd, last>>

\* OK of a showinfo of App.calibrate: after the first, device.send("cal") and
\* device.send("next"); after the second, device.send("next"); after the
\* third, calibrate returns
DevWizardOk ==
    /\ prog = DEV
    /\ wiz.step \notin {"closed"}
    /\ wiz' = CASE wiz.step = "Center" ->
                    [wiz EXCEPT !.step = "Extremes", !.cal = @ + 1, !.next = @ + 1]
                 [] wiz.step = "Extremes" ->
                    [wiz EXCEPT !.step = "Done", !.next = @ + 1]
                 [] OTHER -> [wiz EXCEPT !.step = "closed"]
    /\ sent_cmd' = IF wiz.step = "Done" THEN sent_cmd ELSE dev_send(ser)
    /\ UNCHANGED <<UiKeep, nops, last>>

\* The dialogs of the three tools and the connects that come before them; a
\* dialog is modal, so no other button is pressed while it is up.
InitUi == Init /\ prog \in {GUI, TOOL, DEV}

Dialogs ==
    \/ \E e \in DzEntries : SetDeadzone(e)
    \/ \E loaded \in BOOLEAN, e \in DzAsked : DevSetDeadzone(loaded, e)
    \/ WizardOpen
    \/ WizardButton
    \/ WizardCancel
    \/ DevCalibrate
    \/ DevWizardOk

Connects ==
    /\ wiz.step = "closed"
    /\ \/ \E ok \in BOOLEAN : GuiConnect(ok)
       \/ \E ok \in BOOLEAN : CalConnect(ok)
       \/ \E found, ok \in BOOLEAN : DevConnect(found, ok)
       \/ DevClose

NextUi == Dialogs \/ Connects

SpecUi == InitUi /\ [][NextUi]_vars

\* ------------------------------------------------------------------ Next
\* The transport classes driven directly by a client: the SerialManager of
\* joystick_tool.py, the SerialManager of calibrator_gui.py, the SerialDevice
\* of flash-joystick.py.
InitManager == Init /\ prog \in {TOOLSM, GUISM, DEV, FWU}

Client ==
    \/ ApiWrite
    \/ \E cb \in {LST, ONCE, BAD} : ApiAddListener(cb)
    \/ ApiRemoveListener(LST)
    \/ \E p \in Ports, ok \in BOOLEAN : ToolApiConnect(p, ok)
    \/ ToolApiDisconnect
    \/ ToolMainDisconnecting
    \/ \E p \in Ports, ok \in BOOLEAN : GuiApiConnect(p, ok)
    \/ GuiDisconnect
    \/ \E ok \in BOOLEAN : GuiJoin(ok)
    \/ Device
    \/ Flasher

Next == Client \/ Reader

Spec == InitManager /\ [][Next]_vars

\* calibrator_gui.py: the handlers of CalibratorGUI on the GUI thread, the reader
InitGui == Init /\ prog = GUI

Handlers ==
    \/ VersionTimeout
    \/ Poll
    \/ \E p \in Ports : SetPort(p)
    \/ SendCmd
    \/ \E ok \in BOOLEAN : GuiConnect(ok)
    \/ GuiDisconnect
    \/ \E ok \in BOOLEAN : GuiJoin(ok)

\* the reader of a manager that fills a queue: no lock, no callbacks
QueueReader ==
    \/ \E r \in 1..Len(threads) : ReaderCheck(r)
    \/ \E r \in 1..Len(threads) : ReaderRead(r)

NextGui == Handlers \/ QueueReader

SpecGui == InitGui /\ [][NextGui]_vars

\* joystick_tool.py: the tabs on the GUI thread, the update worker, the readers
InitTool == Init /\ prog = TOOL

Tabs ==
    \/ VersionTimeout
    \/ Poll
    \/ \E p \in Ports : SetPort(p)
    \/ SendCmd
    \/ \E ok \in BOOLEAN : CalConnect(ok)
    \/ CalDisconnect
    \/ StartUpdate

NextTool == Tabs \/ Updater \/ Reader

SpecTool == InitTool /\ [][NextTool]_vars

\* joystick_tool.py with the Calibrator tab connecting and a firmware update
\* that releases the port and takes it again
NextUpdate ==
    \/ \E ok \in BOOLEAN : CalConnect(ok)
    \/ StartUpdate
    \/ Updater
    \/ Reader

SpecUpdate == InitTool /\ [][NextUpdate]_vars

\* =================================================== calibration scripts
\* test.py and oled_mirror.py: module globals raw_x, raw_y, norm_x, norm_y,
\* direction (samp) and the dict cal, a serial_worker thread and the Tk thread
\* that runs the capture buttons.  A step is one read or write of a global.
G == [cal |-> cal, samp |-> samp]

SetG(g) == cal' = g.cal /\ samp' = g.samp

\* A store of the worker that also widens the extents.  C20 fails of this
\* variant.
store_raw_x_observing(g, v) ==
    [g EXCEPT !.samp.raw_x = v,
              !.cal.minx = IF v < @ THEN v ELSE @,
              !.cal.maxx = IF v > @ THEN v ELSE @]

\* the stores of `raw_x, raw_y = map(int, ...)`, `norm_x, norm_y = ...` and
\* `direction = parts[-1]`; the names are declared global in serial_worker
store_raw_x(g, v) == [g EXCEPT !.samp.raw_x = v]
store_raw_y(g, v) == [g EXCEPT !.samp.raw_y = v]
store_norm_x(g, v) == [g EXCEPT !.samp.norm_x = v]
store_norm_y(g, v) == [g EXCEPT !.samp.norm_y = v]
store_direction(g, v) == [g EXCEPT !.samp.direction = v]

\* An extent that takes the reading as it is.  C18 fails of this variant.
widen_min_overwrites(mn, raw) == raw

\* min(cal["minx"], raw_x) and max(cal["maxx"], raw_x)
widen_min(mn, raw) == IF raw < mn THEN raw ELSE mn
widen_max(mx, raw) == IF raw > mx THEN raw ELSE mx

\* A dict store that keeps a value already set.  C19 fails of this variant.
set_key_default(g, k, v) ==
    IF g.cal[k] = None THEN [g EXCEPT !.cal[k] = v] ELSE g

\* cal[k] = v, and one keyword of cal.update(k=v)
set_key(g, k, v) == [g EXCEPT !.cal[k] = v]

\* cal.update(k1=v1, ...) with the keys ks and the evaluated arguments vs
RECURSIVE update(_, _, _)
update(g, ks, vs) ==
    IF ks = <<>> THEN g
    ELSE update(set_key(g, Head(ks), Head(vs)), Tail(ks), Tail(vs))

Others0 ==
    <<prog, serial, smport, alive, read_thread, listeners, lock, hs, threads,
      recv, nlines, nfaults, nops, port_var, mpc, mcont, upc, reconnect_after,
      tmp_open, dframe, awaiting_version, device_version, timers, last, nq,
      polled, sent_cmd, ser>>

Others == <<Others0, fn, view, wiz, dzc>>

\* while ser is None: ser = find_esp32() -- a device answered with "Raw:"
WorkerFind ==
    /\ prog \in {TEST, OLED}
    /\ wk.pc = "find"
    /\ wk' = [wk EXCEPT !.pc = "read"]
    /\ UNCHANGED <<Others, cal, samp, cap>>

\* line = ser.readline().decode(...); the test for "Raw:", the split and the
\* two map() conversions, which raise into `except: pass` before any store
\* (parts[1]) or after the stores of raw_x and raw_y (parts[4])
WorkerReadline ==
    /\ prog \in {TEST, OLED}
    /\ wk.pc = "read"
    /\ wk.n < MaxSamples
    /\ \E l \in Lines :
         wk' = IF l.kind \in {"ok", "badnorm"}
               THEN [pc |-> "raw_x", line |-> l, n |-> wk.n + 1]
               ELSE [pc |-> "read", line |-> NoLine, n |-> wk.n + 1]
    /\ UNCHANGED <<Others, cal, samp, cap>>

WorkerStoreRawX ==
    /\ wk.pc = "raw_x"
    /\ SetG(store_raw_x(G, wk.line.x))
    /\ wk' = [wk EXCEPT !.pc = "raw_y"]
    /\ UNCHANGED <<Others, cap>>

WorkerStoreRawY ==
    /\ wk.pc = "raw_y"
    /\ SetG(store_raw_y(G, wk.line.y))
    /\ wk' = IF wk.line.kind = "badnorm"
             THEN [wk EXCEPT !.pc = "read", !.line = NoLine]
             ELSE [wk EXCEPT !.pc = "norm_x"]
    /\ UNCHANGED <<Others, cap>>

WorkerStoreNormX ==
    /\ wk.pc = "norm_x"
    /\ SetG(store_norm_x(G, wk.line.nx))
    /\ wk' = [wk EXCEPT !.pc = "norm_y"]
    /\ UNCHANGED <<Others, cap>>

WorkerStoreNormY ==
    /\ wk.pc = "norm_y"
    /\ SetG(store_norm_y(G, wk.line.ny))
    /\ wk' = [wk EXCEPT !.pc = "direction"]
    /\ UNCHANGED <<Others, cap>>

WorkerStoreDirection ==
    /\ wk.pc = "direction"
    /\ SetG(store_direction(G, wk.line.dir))
    /\ wk' = [wk EXCEPT !.pc = "read", !.line = NoLine]
    /\ UNCHANGED <<Others, cap>>

Worker ==
    \/ WorkerFind
    \/ WorkerReadline
    \/ WorkerStoreRawX
    \/ WorkerStoreRawY
    \/ WorkerStoreNormX
    \/ WorkerStoreNormY
    \/ WorkerStoreDirection

\* One read of a global by a capture: oled_mirror.py's statement stores what it
\* computed at once; test.py keeps it as an argument of the cal.update to come.
\* rd records the raw values read, args the arguments evaluated so far.
CapStep(k, raw, v, next) ==
    /\ cap' = [cap EXCEPT !.pc = next, !.rd = Append(@, raw),
                          !.args = IF prog = TEST THEN Append(@, v) ELSE @]
    /\ IF prog = OLED THEN SetG(set_key(G, k, v)) ELSE UNCHANGED <<cal, samp>>

\* the last read of a capture; test.py then calls cal.update with the arguments
CapEnd(ks, k, raw, v) ==
    /\ cap' = [cap EXCEPT !.pc = "idle", !.rd = Append(@, raw),
                          !.args = IF prog = TEST THEN Append(@, v) ELSE @]
    /\ IF prog = OLED THEN SetG(set_key(G, k, v))
       ELSE SetG(update(G, ks, Append(cap.args, v)))

\* 'Capture Center' pressed: cx = raw_x
CapCenterX ==
    /\ prog \in {TEST, OLED}
    /\ cap.pc = "idle"
    /\ cap.n < MaxCaptures
    /\ cap' = [cap EXCEPT !.kind = "center", !.n = @ + 1, !.pc = "cy",
                          !.rd = <<samp.raw_x>>,
                          !.args = IF prog = TEST THEN <<samp.raw_x>> ELSE <<>>]
    /\ IF prog = OLED THEN SetG(set_key(G, "cx", samp.raw_x))
       ELSE UNCHANGED <<cal, samp>>
    /\ UNCHANGED <<Others, wk>>

\* cy = raw_y
CapCenterY ==
    /\ cap.pc = "cy"
    /\ CapEnd(<<"cx", "cy">>, "cy", samp.raw_y, samp.raw_y)
    /\ UNCHANGED <<Others, wk>>

\* 'Capture Min/Max' pressed: minx = min(cal["minx"], raw_x)
CapMinX ==
    /\ prog \in {TEST, OLED}
    /\ cap.pc = "idle"
    /\ cap.n < MaxCaptures
    /\ LET v == widen_min(cal.minx, samp.raw_x)
       IN /\ cap' = [cap EXCEPT !.kind = "minmax", !.n = @ + 1,
                                !.pc = "maxx", !.rd = <<samp.raw_x>>,
                                !.args = IF prog = TEST THEN <<v>> ELSE <<>>]
          /\ IF prog = OLED THEN SetG(set_key(G, "minx", v))
             ELSE UNCHANGED <<cal, samp>>
    /\ UNCHANGED <<Others, wk>>

\* maxx = max(cal["maxx"], raw_x)
CapMaxX ==
    /\ cap.pc = "maxx"
    /\ CapStep("maxx", samp.raw_x, widen_max(cal.maxx, samp.raw_x), "miny")
    /\ UNCHANGED <<Others, wk>>

\* miny = min(cal["miny"], raw_y)
CapMinY ==
    /\ cap.pc = "miny"
    /\ CapStep("miny", samp.raw_y, widen_min(cal.miny, samp.raw_y), "maxy")
    /\ UNCHANGED <<Others, wk>>

\* maxy = max(cal["maxy"], raw_y)
CapMaxY ==
    /\ cap.pc = "maxy"
    /\ CapEnd(<<"minx", "maxx", "miny", "maxy">>, "maxy", samp.raw_y,
              widen_max(cal.maxy, samp.raw_y))
    /\ UNCHANGED <<Others, wk>>

Capture ==
    \/ CapCenterX
    \/ CapCenterY
    \/ CapMinX
    \/ CapMaxX
    \/ CapMinY
    \/ CapMaxY

\* ------------------------------------------------------ helpers of test.py
\* calibrated without its test of the center.  C21 fails of this variant.
calibrated_center_untested(val, c, mn, mx) ==
    IF mx = mn THEN Zero
    ELSE IF val >= c THEN QDiv(Q(val - c, 1), Q(mx - c, 1))
    ELSE QDiv(Q(val - c, 1), Q(c - mn, 1))

\* calibrated that scales both sides by the upper half range.  C24 fails of
\* this variant.
calibrated_one_sided(val, c, mn, mx) ==
    IF c = None \/ mx = mn THEN Zero
    ELSE QDiv(Q(val - c, 1), Q(mx - c, 1))

\* def calibrated(val, c, mn, mx)
calibrated(val, c, mn, mx) ==
    IF c = None \/ mx = mn THEN Zero
    ELSE IF val >= c THEN QDiv(Q(val - c, 1), Q(mx - c, 1))
    ELSE QDiv(Q(val - c, 1), Q(c - mn, 1))

\* apply_deadzone that does not rescale what is left of the range.  C25 fails
\* of this variant.
apply_deadzone_unscaled(v, dz) ==
    IF QLt(QAbs(v), dz) THEN Zero
    ELSE IF QLt(Zero, v) THEN QSub(v, dz) ELSE QAdd(v, dz)

\* def apply_deadzone(v, dz)
apply_deadzone(v, dz) ==
    IF QLt(QAbs(v), dz) THEN Zero
    ELSE QDiv(IF QLt(Zero, v) THEN QSub(v, dz) ELSE QAdd(v, dz), QSub(One, dz))

\* a call calibrated(val, c, mn, mx) returns or raises
Calibrated ==
    /\ prog = TESTFN
    /\ fn.f = "calibrated"
    /\ fn.out = NoOut
    /\ fn' = [fn EXCEPT !.out = calibrated(fn.val, fn.c, fn.mn, fn.mx)]
    /\ UNCHANGED <<Others0, cal, samp, wk, cap, view, wiz, dzc>>

\* a call apply_deadzone(v, dz) returns or raises
ApplyDeadzone ==
    /\ prog = TESTFN
    /\ fn.f = "apply_deadzone"
    /\ fn.out = NoOut
    /\ fn' = [fn EXCEPT !.out = apply_deadzone(fn.v, fn.dz)]
    /\ UNCHANGED <<Others0, cal, samp, wk, cap, view, wiz, dzc>>

InitFn == Init /\ prog = TESTFN

NextFn == Calibrated \/ ApplyDeadzone

SpecFn == InitFn /\ [][NextFn]_vars

\* dz_slider.set(cal["deadzone"]): the slider is left at 0.08
dz_slider == Q(2, 25)

\* update(), scheduled every 16 ms on the Tk thread while no button command
\* runs, with use_cal set:
\* vx = apply_deadzone(calibrated(raw_x, cal["cx"], cal["minx"], cal["maxx"]), dz)
\* An exception leaves update() before its root.after(16, update): the loop ends.
DrawX ==
    /\ prog = TEST
    /\ cap.pc = "idle"
    /\ view.pc = "vx"
    /\ LET c == calibrated(samp.raw_x, cal.cx, cal.minx, cal.maxx)
           v == IF c.exc = "none" THEN apply_deadzone(c, dz_slider) ELSE c
       IN view' = [view EXCEPT !.vx = v,
                               !.pc = IF v.exc = "none" THEN "vy" ELSE "raised"]
    /\ UNCHANGED <<Others0, fn, cal, samp, wk, cap, wiz, dzc>>

\* vy = apply_deadzone(calibrated(raw_y, cal["cy"], cal["miny"], cal["maxy"]), dz)
DrawY ==
    /\ view.pc = "vy"
    /\ LET c == calibrated(samp.raw_y, cal.cy, cal.miny, cal.maxy)
           v == IF c.exc = "none" THEN apply_deadzone(c, dz_slider) ELSE c
       IN view' = [view EXCEPT !.vy = v,
                               !.pc = IF v.exc = "none" THEN "vx" ELSE "raised"]
    /\ UNCHANGED <<Others0, fn, cal, samp, wk, cap, wiz, dzc>>

Draw == DrawX \/ DrawY

InitDraw == Init /\ prog = TEST

\* a capture command starts between two runs of update(), not inside one
GuiCapture ==
    \/ view.pc # "vy" /\ (CapCenterX \/ CapMinX)
    \/ CapCenterY
    \/ CapMaxX
    \/ CapMinY
    \/ CapMaxY

NextDraw == Worker \/ GuiCapture \/ Draw

SpecDraw == InitDraw /\ [][NextDraw]_vars

InitCal == Init /\ prog \in {TEST, OLED}

NextCal == Worker \/ Capture

SpecCal == InitCal /\ [][NextCal]_vars

\* ================================================================ claims
Active(t) == ~Finished(t)

\* the reader threads whose _read_loop has not ended
ActiveReaders == {r \in 1..Len(threads) : Active(threads[r])}

\* no SerialManager call is in progress on any thread
Quiet == mpc = "idle" /\ upc \notin DisPcs

\* the handles of the manager that are open
OpenHandles == {h \in 1..Len(hs) : hs[h].open}

RECURSIVE Count(_, _)
Count(s, x) == IF s = <<>> THEN 0
               ELSE (IF Head(s) = x THEN 1 ELSE 0) + Count(Tail(s), x)

\* the data lines of a sequence of delivered lines, the error lines left out
DataLines(s) == SelectSeq(s, LAMBDA x : x # ERRLINE)

StrictlyIncreasing(s) == \A i \in 1..Len(s) - 1 : s[i] < s[i + 1]

\* C1: whenever no connect or disconnect is in progress, exactly one reader loop
\* is active while the transport is open and none while it is closed, and never
\* do two reader loops run side by side.
C1_OneReaderWhileOpen ==
    /\ Cardinality(ActiveReaders) <= 1
    /\ Quiet => Cardinality(ActiveReaders) = (IF IsOpen(Cur) THEN 1 ELSE 0)

\* C2: every subscriber is handed each line at most once and in arrival order:
\* the data lines it received are strictly increasing.
C2_EachLineOnceInOrder ==
    \A s \in Subs : StrictlyIncreasing(DataLines(recv[s]))

\* C3: a listener that calls remove_listener on itself inside its callback
\* returns from the call: no reader thread is ever stuck in that callback
\* waiting for the lock its own dispatch holds.
C3_SelfRemoveReturns ==
    \A r \in 1..Len(threads) : ~(threads[r].pc = "blocked" /\ lock = r)

\* C4: while esptool runs (erase or write), the shared SerialManager holds no
\* open handle.
C4_ReleasedWhileFlashing == Flashing => (~IsOpen(Cur) /\ OpenHandles = {})

\* read failures so far: each reader thread fails at most once
Failures ==
    {r \in 1..Len(threads) :
        \/ threads[r].pc = "failed"
        \/ threads[r].pc \in {"lock", "cb", "blocked"} /\ threads[r].line = ERRLINE}

\* C5: for each read failure every subscriber gets one error line and the loop
\* stops: no subscriber has received more error lines than reads have failed,
\* and a reader that has finished dispatching its error line has ended.
C5_OneErrorLinePerFailure ==
    /\ \A s \in Subs : Count(recv[s], ERRLINE) <= Cardinality(Failures)
    /\ \A r \in 1..Len(threads) : threads[r].pc = "blocked" => threads[r].line # ERRLINE

\* C6: once the reader loop of the current connection has ended on a read error,
\* the transport reports closed.
C6_ClosedAfterReadError ==
    (Quiet /\ read_thread # 0 /\ threads[read_thread].pc = "failed") => ~IsOpen(Cur)

\* the SerialManager.connect(p) calls of the clients
ConnectCall(p) ==
    \/ \E ok \in BOOLEAN : ToolApiConnect(p, ok)
    \/ \E ok \in BOOLEAN : GuiApiConnect(p, ok)
    \/ (port_var = p /\ \E ok \in BOOLEAN : GuiConnect(ok))

\* C7: connect(P) on a transport open on P changes neither the handle, nor its
\* open flag, nor the reader thread, nor the alive flag, nor the listeners: no
\* handle is closed and none is created.
C7_ConnectSamePortNoop ==
    [][\A p \in Ports :
          (IsOpen(Cur) /\ PortOf(Cur) = p /\ ConnectCall(p))
              => UNCHANGED <<serial, smport, alive, read_thread, listeners, hs,
                             threads, lock>>]_vars

\* a connect(P) has returned normally on a transport that was open on P
C7_Witness == last.op = "connect" /\ last.same /\ last.exc = "none"

\* C8: after connect(Q) has returned normally on a transport that was open on
\* another port, the transport is open on Q and on no other port.
C8_ConnectOtherPortSwitches ==
    (Quiet /\ last.op = "connect" /\ last.open /\ ~last.same /\ last.exc = "none")
        => (IsOpen(Cur) /\ PortOf(Cur) = last.port /\ OpenHandles = {serial})

\* disconnect() as one function of the manager's state (the join in its middle
\* changes none of the manager's fields)
disconnect(S) ==
    IF prog \in Shared
    THEN dis_none(dis_close(dis_clear(S)))
    ELSE gui_dis_end(gui_dis_begin(S))

NoPortName(S) == [S EXCEPT !.smport = NoPort]

C10_WriteContract ==
    last.op = "write" =>
        IF last.open THEN last.exc = "none" /\ last.sent = 1
        ELSE last.exc = "NotOpen" /\ last.sent = 0

C12_RaisingListenerIsSkipped ==
    [][\A r \in 1..Len(threads) :
          (/\ threads[r].pc = "cb"
           /\ threads[r].snap # <<>>
           /\ call(Head(threads[r].snap)) = "raises"
           /\ ReaderCallback(r))
          => /\ threads'[r] = [threads[r] EXCEPT !.snap = Tail(@)]
             /\ lock' = r]_vars

\* the raising listener, registered first, and the listener after it have both
\* been handed the same data line
C12_Witness ==
    /\ listeners = <<BAD, LST>>
    /\ \E i \in 1..Len(recv[BAD]) :
          recv[BAD][i] # ERRLINE /\ recv[BAD][i] \in Range(recv[LST])

\* C13: a command sent while no transport is open ends as not-connected and
\* writes nothing; a command sent while the transport is open calls serial.write
\* once, with the command text followed by one newline.
C13_SendContract ==
    sent_cmd.op # "none" =>
        IF sent_cmd.open
        THEN sent_cmd.result = "sent" /\ sent_cmd.writes = 1 /\ sent_cmd.newlines = 1
        ELSE sent_cmd.result = "NotConnected" /\ sent_cmd.writes = 0

\* The query whose deadline fires next: after() callbacks armed with the same
\* delay fire in the order they were armed, and the n-th query armed the n-th.
FiringTimer == nq - timers + 1

\* a step in which a _version_timeout callback runs
TimerFires == timers' = timers - 1

\* a step in which _poll_serial_queue takes a line matching the version pattern
PollsVersionLine ==
    /\ polled' > polled
    /\ \E i \in (polled + 1)..polled' : IsVersionLine(q[i])

\* C14: the pending flag becomes true only in a query that writes the version
\* command on an open transport; it becomes false only when a matching line is
\* polled, which records the version, or when the deadline of the pending query
\* (the latest one) expires, which records unknown; and while the flag is false
\* neither a line nor a deadline changes the recorded version.
C14_PendingLifecycle ==
    [][/\ (~awaiting_version /\ awaiting_version')
            => (nq' = nq + 1 /\ sent_cmd'.open /\ sent_cmd'.writes = 1)
       /\ (awaiting_version /\ ~awaiting_version')
            => \/ PollsVersionLine /\ device_version' = FWVER
               \/ TimerFires /\ FiringTimer = nq /\ device_version' = "None"
       /\ (~awaiting_version /\ ~awaiting_version')
            => device_version' = device_version]_vars

\* C15: while a version correlation is pending no further version query is
\* sent and no further deadline is armed.
C15_OneCorrelationOutstanding ==
    [][awaiting_version => (nq' = nq /\ timers' <= timers)]_vars

\* C16: a deadline that resolves a pending query to unknown is the deadline that
\* query armed, never the deadline of an earlier query.
C16_TimeoutIsOwnDeadline ==
    [][(awaiting_version /\ TimerFires) => FiringTimer = nq]_vars

\* C17: a version correlation that is pending on a closed transport resolves
\* to unknown: whenever the flag is cleared while the transport is closed, the
\* recorded version is unknown.
C17_ClosedResolvesUnknown ==
    [][(awaiting_version /\ ~awaiting_version' /\ ~IsOpen(Cur))
          => device_version' = "None"]_vars

\* the smaller and the larger of two readings
Smaller(a, b) == IF a <= b THEN a ELSE b
Larger(a, b) == IF a >= b THEN a ELSE b

\* The step stores the key of cal that is evaluated i-th in a capture of the
\* extents: oled_mirror.py stores in the statement that reads, test.py in the
\* cal.update that ends the capture.
ExtentStored(i) ==
    /\ cap'.kind = "minmax"
    /\ IF prog = OLED
       THEN Len(cap.rd) # i /\ Len(cap'.rd) = i
       ELSE cap.pc = "maxy" /\ cap'.pc = "idle"

\* C18: in every step the recorded min of an axis does not increase and its
\* recorded max does not decrease; every read of a capture of the extents takes
\* the raw value of its axis current at that moment, and the capture stores the
\* smaller of the old min and the value read for it, and the larger of the old
\* max and the value read for it.
C18_ExtentsWidenMonotonically ==
    [][/\ cal'.minx <= cal.minx /\ cal'.maxx >= cal.maxx
       /\ cal'.miny <= cal.miny /\ cal'.maxy >= cal.maxy
       /\ (cap'.kind = "minmax" /\ cap'.rd # cap.rd)
            => cap'.rd[Len(cap'.rd)]
                 = IF Len(cap'.rd) <= 2 THEN samp.raw_x ELSE samp.raw_y
       /\ ExtentStored(1) => cal'.minx = Smaller(cal.minx, cap'.rd[1])
       /\ ExtentStored(2) => cal'.maxx = Larger(cal.maxx, cap'.rd[2])
       /\ ExtentStored(3) => cal'.miny = Smaller(cal.miny, cap'.rd[3])
       /\ ExtentStored(4) => cal'.maxy = Larger(cal.maxy, cap'.rd[4])]_vars

\* a second capture of the extents has lowered the min of x to the reading
\* 1000 and kept the max 3000 of the first capture
C18_Witness ==
    /\ cap.pc = "idle" /\ cap.kind = "minmax" /\ cap.n = 2
    /\ cap.rd[1] = 1000 /\ cap.rd[2] = 1000
    /\ cal.minx = 1000 /\ cal.maxx = 3000

\* C19: a capture of the center stores the raw x and the raw y it read, each
\* current at the moment of its read, whatever center was stored before.
C19_CenterOverwrites ==
    [][/\ (cap'.kind = "center" /\ cap'.rd # cap.rd)
            => cap'.rd[Len(cap'.rd)]
                 = IF Len(cap'.rd) = 1 THEN samp.raw_x ELSE samp.raw_y
       /\ (cap.pc = "cy" /\ cap'.pc = "idle")
            => cal'.cx = cap'.rd[1] /\ cal'.cy = cap'.rd[2]
       /\ (prog = OLED /\ cap.pc = "idle" /\ cap'.pc = "cy")
            => cal'.cx = cap'.rd[1]]_vars

\* two captures of the center and none of the extents were made; the second
\* read (3000, 3000) and that pair is the stored center
C19_Witness ==
    /\ cap.pc = "idle" /\ cap.kind = "center" /\ cap.n = 2
    /\ cal.minx = 4095 /\ cal.maxx = 0
    /\ cap.rd = <<3000, 3000>>
    /\ cal.cx = 3000 /\ cal.cy = 3000

\* C20: a step of serial_worker leaves cal as it is, and a step that changes
\* cal is a step of a capture, which leaves the latest sample as it is.
C20_SamplesLeaveCalibration ==
    [][/\ (wk' # wk \/ samp' # samp) => cal' = cal
       /\ cal' # cal => (cap' # cap /\ wk' = wk /\ samp' = samp)]_vars

\* the worker has stored a whole sample and no capture was made
C20_Witness ==
    /\ wk.pc = "read" /\ wk.n > 0 /\ cap.n = 0
    /\ samp.raw_x = 3000 /\ samp.raw_y = 1000 /\ samp.direction = "RIGHT"
    /\ cal.cx = None /\ cal.minx = 4095 /\ cal.maxx = 0

\* update() computes vx in this step, and vy
DrawsX == view.pc = "vx" /\ view'.pc # "vx"
DrawsY == view.pc = "vy" /\ view'.pc # "vy"

\* C21: while the center is unset calibrated returns 0.0 for every raw value
\* and whatever the extents are.
C21_UnsetCenterGivesZero ==
    (fn.f = "calibrated" /\ fn.out # NoOut /\ fn.c = None) => fn.out = Zero

\* calibrated was called with the initial calibration and a raw value of 3000
C21_Witness ==
    /\ fn.f = "calibrated" /\ fn.c = None /\ fn.mn = 4095 /\ fn.mx = 0
    /\ fn.val = 3000 /\ fn.out = Zero

\* C22: in every state the captures can reach, the normalization of update()
\* raises no division by zero, and gives 0.0 when the center is unset, when the
\* max equals the center and when the center equals the min.
C22_NoDivisionByZero ==
    [][/\ DrawsX => /\ view'.vx.exc = "none"
                    /\ (cal.cx = None \/ cal.maxx = cal.cx \/ cal.cx = cal.minx)
                          => view'.vx = Zero
       /\ DrawsY => /\ view'.vy.exc = "none"
                    /\ (cal.cy = None \/ cal.maxy = cal.cy \/ cal.cy = cal.miny)
                          => view'.vy = Zero]_vars

\* a fraction lies in [-1, 1]
InUnit(a) == ~QLt(a, Q(-1, 1)) /\ ~QLt(One, a)

\* C23: in every state the captures can reach, a normalization of update() that
\* returns gives a value in [-1, 1].
C23_NormalizedInUnitInterval ==
    [][/\ DrawsX => LET c == calibrated(samp.raw_x, cal.cx, cal.minx, cal.maxx)
                    IN c.exc = "none" => InUnit(c)
       /\ DrawsY => LET c == calibrated(samp.raw_y, cal.cy, cal.miny, cal.maxy)
                    IN c.exc = "none" => InUnit(c)]_vars

\* a / b = out, for integers a and b # 0
IsQuotient(out, a, b) == out.exc = "none" /\ out.n * b = a * out.d

\* C24: with lo < center < hi calibrated returns (raw - center) / (hi - center)
\* for raw >= center and (raw - center) / (center - lo) for raw < center; so
\* raw = center gives 0, raw = hi gives 1 and raw = lo gives -1.
C24_PiecewiseLinear ==
    (fn.f = "calibrated" /\ fn.out # NoOut /\ fn.c # None
        /\ fn.mn < fn.c /\ fn.c < fn.mx)
    => /\ fn.val >= fn.c => IsQuotient(fn.out, fn.val - fn.c, fn.mx - fn.c)
       /\ fn.val < fn.c => IsQuotient(fn.out, fn.val - fn.c, fn.c - fn.mn)
       /\ fn.val = fn.c => fn.out.n = 0
       /\ fn.val = fn.mx => (fn.out.n = 1 /\ fn.out.d = 1)
       /\ fn.val = fn.mn => (fn.out.n = -1 /\ fn.out.d = 1)

\* calibrated(0, 2048, 0, 4095) returned -1.0
C24_Witness ==
    /\ fn.f = "calibrated" /\ fn.val = 0 /\ fn.c = 2048 /\ fn.mn = 0
    /\ fn.mx = 4095 /\ fn.out = Q(-1, 1)

\* the sign of a fraction: -1, 0 or 1
Sgn(a) == IF a.n < 0 THEN -1 ELSE IF a.n > 0 THEN 1 ELSE 0

\* C25: for 0 <= dz < 1 and v in [-1, 1], apply_deadzone returns 0 when
\* |v| <= dz, the sign of v when |v| = 1, and otherwise the value r with
\* r * (1 - dz) = v - sign(v) * dz; the result is in [-1, 1] and is 0 or has
\* the sign of v.
C25_DeadzoneTransform ==
    (fn.f = "apply_deadzone" /\ fn.out # NoOut /\ InUnit(fn.v)
        /\ ~QLt(fn.dz, Zero) /\ QLt(fn.dz, One))
    => /\ fn.out.exc = "none"
       /\ ~QLt(fn.dz, QAbs(fn.v)) => fn.out.n = 0
       /\ QAbs(fn.v) = One => fn.out = fn.v
       /\ QLt(fn.dz, QAbs(fn.v))
            => LET lhs == Q(fn.out.n * (fn.dz.d - fn.dz.n), fn.out.d * fn.dz.d)
                   rhs == Q(fn.v.n * fn.dz.d - Sgn(fn.v) * fn.dz.n * fn.v.d,
                            fn.v.d * fn.dz.d)
               IN lhs = rhs /\ Sgn(fn.out) = Sgn(fn.v)
       /\ InUnit(fn.out)

\* apply_deadzone(-0.55, 0.1) returned -0.5
C25_Witness ==
    /\ fn.f = "apply_deadzone" /\ fn.v = Q(-11, 20) /\ fn.dz = Q(1, 10)
    /\ fn.out = Q(-1, 2)

\* C26: called with dz >= 1, apply_deadzone raises no division by zero and
\* returns a value in [-1, 1] that is 0 or has the sign of v.
C26_DeadzoneGuardsDz ==
    (fn.f = "apply_deadzone" /\ fn.out # NoOut /\ ~QLt(fn.dz, One))
    => /\ fn.out.exc = "none"
       /\ InUnit(fn.out)
       /\ Sgn(fn.out) \in {0, Sgn(fn.v)}

\* C27: a set_deadzone command is written to the device only for an entry
\* that is a number f with 0 <= f < 0.9.
C27_DeadzoneValidated ==
    dzc.sent.writes > 0
    => /\ dzc.entry.kind = "num"
       /\ ~QLt(dzc.entry.f, Zero)
       /\ QLt(dzc.entry.f, Q(9, 10))

\* the wizard goes from Center to Extremes or from Extremes to Done
Advances ==
    \/ wiz.step = "Center" /\ wiz'.step = "Extremes"
    \/ wiz.step = "Extremes" /\ wiz'.step = "Done"

C29_StartSendsCal ==
    [][(wiz.step = "closed" /\ wiz' # wiz /\ IsOpen(Cur))
          => /\ wiz'.step = "Center" /\ wiz'.cal = 1
             /\ sent_cmd'.open /\ sent_cmd'.writes = 1]_vars

\* a step of the disconnect or of a reconnect of UpdaterTab.update
UpdTearsOrReconnects ==
    upc \in DisPcs \cup {"fail_connect", "ok_connect"} /\ upc' # upc

\* C30: the disconnect and the reconnect of a firmware update leave the list of
\* listeners as it is, and a reader thread hands every line to the listeners
\* that are registered when it takes the line up: a listener registered before
\* the disconnect gets the lines read after the reconnect.
C30_ReconnectKeepsListeners ==
    [][/\ UpdTearsOrReconnects => listeners' = listeners
       /\ \A r \in 1..Len(threads) :
            /\ (threads[r].pc = "lock" /\ threads'[r].pc = "cb")
                 => threads'[r].snap = listeners
            /\ (threads[r].pc = "cb" /\ threads[r].snap # <<>>
                   /\ threads'[r].snap = Tail(threads[r].snap)
                   /\ call(Head(threads[r].snap)) = "returns")
                 => recv'[Head(threads[r].snap)]
                      = Append(recv[Head(threads[r].snap)], threads[r].line)]_vars

\* the Calibrator tab registered its listener once, an update disconnected and
\* reconnected, and the reader of the reconnect has handed a line to it
C30_Witness ==
    /\ Count(listeners, CAL) = 1
    /\ reconnect_after /\ Len(threads) = 2
    /\ threads[2].pc = "cb" /\ threads[2].snap = <<>>
    /\ threads[2].line # ERRLINE
    /\ threads[2].line \in Range(recv[CAL])

\* UpdaterTab.update returns
UpdateReturns == upc # "idle" /\ upc' = "idle"

\* C31: when an update that released the port of the serial monitor returns,
\* after esptool succeeded or failed, the shared manager is open again and the
\* log listener of the Updater tab is registered.
C31_MonitorReopens ==
    [][(UpdateReturns /\ reconnect_after)
          => /\ serial' # 0 /\ hs'[serial'].open
             /\ UPD \in Range(listeners')]_vars

\* a step closes handle h
Closes(h) == hs[h].open /\ ~hs'[h].open

\* reader thread r is inside readline() on handle h
InFlight(r, h) == threads[r].pc \in {"read", "fw_read"} /\ threads[r].h = h

\* C32: no step closes a serial handle while a reader thread is inside a
\* readline() on that handle.
C32_NoCloseUnderRead ==
    [][\A h \in 1..Len(hs) :
          Closes(h) => \A r \in 1..Len(threads) : ~InFlight(r, h)]_vars

\* reader thread r is inside a dispatch with a callback still to run or running
Dispatching(r) ==
    threads[r].pc \in {"cb", "blocked"} /\ threads[r].snap # <<>>

\* C33: the listener lock is not held while the callbacks of a dispatch run, so
\* that add_listener and remove_listener, which take the lock, can complete
\* meanwhile.
C33_LockFreeDuringCallbacks ==
    \A r \in 1..Len(threads) : Dispatching(r) => lock = 0

\* the entries of the line queue that _poll_serial_queue has not taken yet
Unpolled == SubSeq(q, polled + 1, Len(q))

\* C34: when query_device_version sets the pending flag, which was clear, the
\* queue the correlation reads holds no version line: every line that can
\* resolve the query is read from the device after the flag was set.
C34_NoStaleVersionLine ==
    [][(~awaiting_version /\ awaiting_version')
          => \A i \in 1..Len(Unpolled) : ~IsVersionLine(Unpolled[i])]_vars

\* C35: at most one serial handle is open on a port: no two handles of the
\* shared manager are open on one port, and the temporary handle of
\* enter_flash_mode, which is opened on the selected port, is not open while the
\* shared manager holds a handle open on that port.
C35_OneHandlePerPort ==
    /\ \A h1, h2 \in 1..Len(hs) :
          (h1 # h2 /\ hs[h1].open /\ hs[h2].open) => hs[h1].port # hs[h2].port
    /\ tmp_open => \A h \in 1..Len(hs) : hs[h].open => hs[h].port # port_var

\* the line the worker is working on cannot be parsed in full
Unparsable == wk.line.kind \in {"badraw", "badnorm"}

\* C36: a raw-sample line that cannot be parsed in full changes none of raw_x,
\* raw_y, norm_x, norm_y and direction, and the worker goes on to read the next
\* line.
C36_BadLineIgnored ==
    [][Unparsable => (samp' = samp /\ wk'.pc \in {"read", "raw_x"})]_vars

\* the (raw_x, raw_y) pairs that belong together: the pair of a line whose raw
\* field parses, and the pair the globals start with
Together ==
    {<<l.x, l.y>> : l \in {m \in Lines : m.kind \in {"ok", "badnorm"}}}
    \cup {<<0, 0>>}

\* C37: the raw values a finished capture has read are one pair that belongs
\* together: a center capture read x and y of one sample, an extent capture
\* read the same x twice, the same y twice, and x and y of one sample.
C37_CaptureUsesOneSample ==
    (cap.pc = "idle" /\ cap.n > 0) =>
        /\ cap.kind = "center" => <<cap.rd[1], cap.rd[2]>> \in Together
        /\ cap.kind = "minmax" =>
              /\ cap.rd[1] = cap.rd[2]
              /\ cap.rd[3] = cap.rd[4]
              /\ <<cap.rd[1], cap.rd[3]>> \in Together

\* v lies in [mn, mx]
Within(v, mn, mx) == mn <= v /\ v <= mx

\* C38: once a capture has stored both extents of an axis (they start as 4095
\* and 0) the axis has min <= max, and when an extent capture has ended the raw
\* values it read lie within the extents of their axis.
C38_ExtentsOrdered ==
    /\ (cal.minx # 4095 /\ cal.maxx # 0) => cal.minx <= cal.maxx
    /\ (cal.miny # 4095 /\ cal.maxy # 0) => cal.miny <= cal.maxy
    /\ (cap.kind = "minmax" /\ cap.pc = "idle") =>
          /\ Within(cap.rd[1], cal.minx, cal.maxx)
          /\ Within(cap.rd[2], cal.minx, cal.maxx)
          /\ Within(cap.rd[3], cal.miny, cal.maxy)
          /\ Within(cap.rd[4], cal.miny, cal.maxy)

\* the fraction c has the sign of the deflection raw - center, or is zero
SignOfDeflection(c, raw, center) ==
    /\ raw >= center => c.n >= 0
    /\ raw < center => c.n <= 0

\* C39: in every state the captures can reach with the center set, a
\* normalization of update() that returns gives a value that is >= 0 for a raw
\* value at or above the center and <= 0 for a raw value below it.
C39_SignFollowsDeflection ==
    [][/\ (DrawsX /\ cal.cx # None)
            => LET c == calibrated(samp.raw_x, cal.cx, cal.minx, cal.maxx)
               IN c.exc = "none" => SignOfDeflection(c, samp.raw_x, cal.cx)
       /\ (DrawsY /\ cal.cy # None)
            => LET c == calibrated(samp.raw_y, cal.cy, cal.miny, cal.maxy)
               IN c.exc = "none" => SignOfDeflection(c, samp.raw_y, cal.cy)]_vars

====
